---------------------------- MODULE Spec2Model ----------------------------
(***************************************************************************)
(* Model of the ESP32 anonymous chat server:                               *)
(*   src/main/chat_storage.c  ring buffer, JSON cache, batched NVS save    *)
(*   src/main/chat_server.c   POST handler, SSE client registry, fanout    *)
(*                                                                         *)
(* Handlers run as tasks.  Every critical section (the code between an     *)
(* xSemaphoreTake and the matching xSemaphoreGive) is one atomic step;     *)
(* code outside the mutexes is a step of its own, so that accesses to the  *)
(* cache, to new_messages_count and to the sockets interleave as they can  *)
(* between tasks.  Strings are sequences of one-character strings, a       *)
(* serialised JSON array is the sequence of its message objects.           *)
(***************************************************************************)
EXTENDS Integers, Sequences, FiniteSets, TLC

(***************************************************************************)
(* Program constants (chat_storage.h, chat_server.c).  The string sizes    *)
(* keep their values; the capacities and time-outs are scaled down.        *)
(***************************************************************************)
MAX_UUID_LENGTH == 37
MAX_USERNAME_LENGTH == 32
MAX_MESSAGE_LENGTH == 150
\* chat_storage.h:9 has 100; scaled
MAX_MESSAGES == 3
\* chat_storage.h:15 has 30 (seconds); scaled
CACHE_VALID_TIME == 2
\* chat_storage.h:16 has 5; scaled
MIN_MESSAGES_TO_SAVE == 2

(***************************************************************************)
(* Bounds of the model.                                                    *)
(***************************************************************************)
\* the clock stops at MaxTime seconds
MaxTime == 2
\* chat_storage_add_message is called at most MaxAppends times
MaxAppends == 4
\* and at most MaxCacheAppends times in SpecCache
MaxCacheAppends == 2
\* MAX_SSE_CLIENTS (chat_server.c:29 has 10), the seconds of inactivity after
\* which cleanup_sse_clients removes a client (chat_server.c:247 has 300),
\* max_connection_time (chat_server.c:412 has 600) and the number of loop
\* iterations per ping (chat_server.c:435 has 5), scaled
MAX_SSE_CLIENTS == 2
InactiveSeconds == 0
max_connection_time == 1
PingEvery == 1
\* in SpecRegistry, SpecBroadcast and SpecPost the clock stops at MaxSseTime
MaxSseTime == 1
\* the number of messages posted is bounded, in SpecBroadcast by
\* MaxBroadcastPosts
MaxPosts == 2
MaxBroadcastPosts == 1

Min(a, b) == IF a < b THEN a ELSE b

(***************************************************************************)
(* Strings.                                                                *)
(***************************************************************************)
\* n copies of the character c
Rep(c, n) == [i \in 1..n |-> c]

\* strlcpy(dst, src, size): dst receives at most size-1 characters of src
strlcpy(src, size) == SubSeq(src, 1, Min(Len(src), size - 1))

\* chat_message_t
Msg(uuid, username, message, timestamp) ==
    [uuid |-> uuid, username |-> username, message |-> message,
     timestamp |-> timestamp]

\* a slot of the zero-initialised static array
EmptyMsg == Msg(<<>>, <<>>, <<>>, 0)

\* a char* that is NULL or points to a serialised JSON value
NULL == [null |-> TRUE, json |-> <<>>]
Ptr(j) == [null |-> FALSE, json |-> j]

(***************************************************************************)
(* State.                                                                  *)
(***************************************************************************)
VARIABLES
    now,                            \* time(NULL)
    chat_storage,                   \* chat_storage.c: messages, count, next_index
    cached_full_messages_json,      \* chat_storage.c:31
    cached_full_messages_timestamp, \* chat_storage.c:32
    cache_valid,                    \* chat_storage.c:33
    new_messages_count,             \* chat_storage.c:36
    pc,                             \* where each task is
    loc,                            \* each task's local variables
    ret,                            \* what each task's last call returned
    nvs,                            \* the "chat" NVS namespace: the keys as set,
                                    \* as committed, and (history) the messages of
                                    \* the last save of chat_storage.c that succeeded
    appended,                       \* history: every message stored, in lock order
    flushes,                        \* history: number of saves triggered
    server_storage,                 \* chat_server.c:51 chat_storage
    sse_clients,                    \* chat_server.c:64 the list, head first
    sse_client_count,               \* chat_server.c:66
    sock,                           \* each socket: "closed", "open", "dead"
    spc,                            \* where each handler of chat_server.c is
    sloc,                           \* each handler's local variables
    resp,                           \* each handler's HTTP response
    sent,                           \* history: the events sent on each socket
    posted,                         \* history: every message posted, in lock order
    chat_mutex,                     \* chat_storage.c:23: the tasks that hold it
    server_mutex,                   \* chat_server.c chat_mutex: the handlers that
                                    \* hold it
    sse_mutex                       \* chat_server.c sse_mutex: the handlers that
                                    \* hold it

\* a mutex is the set of its holders: empty when free.  An action that is a
\* whole critical section takes and gives the mutex in its step
mutexes == <<chat_mutex, server_mutex, sse_mutex>>
storage_vars == <<chat_storage, cached_full_messages_json,
                  cached_full_messages_timestamp, cache_valid, new_messages_count>>
server_vars == <<server_storage, sse_clients, sse_client_count, sock, spc, sloc,
                 resp, sent, posted, mutexes>>
vars == <<now, chat_storage, cached_full_messages_json,
          cached_full_messages_timestamp, cache_valid, new_messages_count,
          pc, loc, ret, nvs, appended, flushes,
          server_storage, sse_clients, sse_client_count, sock, spc, sloc,
          resp, sent, posted, chat_mutex, server_mutex, sse_mutex>>

Tasks == {"t1", "t2"}
SaveTasks == {"s1"}


\* the return values this model distinguishes
Ret(op, status, json, hit, has_new, error) ==
    [op |-> op, status |-> status, json |-> json, hit |-> hit,
     has_new |-> has_new, error |-> error, since |-> 0,
     prev |-> [op |-> "none", status |-> "ESP_OK"]]
NoRet == Ret("none", "ESP_OK", NULL, FALSE, FALSE, "")

\* task t makes a call: prev keeps which call of t returned before it, and
\* how, until the new call returns
Call(t) ==
    ret' = [ret EXCEPT ![t] =
               [NoRet EXCEPT !.prev = [op |-> ret[t].op, status |-> ret[t].status]]]

\* the call of task t returns r
Return(t, r) == ret' = [ret EXCEPT ![t] = [r EXCEPT !.prev = ret[t].prev]]

\* task t makes a call that returns r in the same step
CallReturn(t, r) ==
    ret' = [ret EXCEPT ![t] =
               [r EXCEPT !.prev = [op |-> ret[t].op, status |-> ret[t].status]]]

\* a task's locals: current_time, the copied messages, since_timestamp,
\* where a synchronous save_chat_history() returns to, what
\* save_chat_history() returned, and the i of its record loop
NoLoc == [time |-> 0, copy |-> <<>>, since |-> 0, back |-> "idle",
          err |-> "ESP_OK", i |-> 0]

(***************************************************************************)
(* chat_storage.c: the ring buffer.                                        *)
(***************************************************************************)
\* mutant: the copy always starts at slot 0
StartIdx_AlwaysZero(st) == 0

\* start_idx of the three copy loops: next_index when the ring is full
StartIdx(st) == IF st.count = MAX_MESSAGES THEN st.next_index ELSE 0

\* the copy loop: count messages from start_idx on, modulo MAX_MESSAGES
CopyMessages(st) ==
    [i \in 1..st.count |-> st.messages[(StartIdx(st) + (i - 1)) % MAX_MESSAGES]]

\* the three strlcpy calls and the timestamp of chat_storage_add_message
StoredMessage(uuid, username, message, t) ==
    Msg(strlcpy(uuid, MAX_UUID_LENGTH), strlcpy(username, MAX_USERNAME_LENGTH),
        strlcpy(message, MAX_MESSAGE_LENGTH), t)

\* mutant: next_index is advanced before the slot is written
StoreMessage_AdvanceFirst(st, uuid, username, message, t) ==
    [messages   |-> [st.messages EXCEPT ![(st.next_index + 1) % MAX_MESSAGES] =
                        StoredMessage(uuid, username, message, t)],
     count      |-> IF st.count < MAX_MESSAGES THEN st.count + 1 ELSE st.count,
     next_index |-> (st.next_index + 1) % MAX_MESSAGES]

\* the slot write and the index update of chat_storage_add_message
StoreMessage(st, uuid, username, message, t) ==
    [messages   |-> [st.messages EXCEPT ![st.next_index] =
                        StoredMessage(uuid, username, message, t)],
     count      |-> IF st.count < MAX_MESSAGES THEN st.count + 1 ELSE st.count,
     next_index |-> (st.next_index + 1) % MAX_MESSAGES]

\* mutant: messages of the second since_timestamp pass too
NewerThan_OrEqual(m, since_timestamp) == m.timestamp >= since_timestamp

\* the filter loop of chat_storage_get_messages_since_json
NewerThan(m, since_timestamp) == m.timestamp > since_timestamp

\* mutant: the messages whose timestamp differs from since_timestamp pass
MessagesSince_Different(copy, since_timestamp) ==
    SelectSeq(copy, LAMBDA m : m.timestamp # since_timestamp)

MessagesSince(copy, since_timestamp) ==
    SelectSeq(copy, LAMBDA m : NewerThan(m, since_timestamp))

\* (current_time - cached_full_messages_timestamp) < CACHE_VALID_TIME in
\* uint32_t: a negative difference wraps to 2^32 minus it, which is not below
\* CACHE_VALID_TIME for any difference the bounded clock can produce
CacheFresh(current_time, cached_timestamp) ==
    IF current_time >= cached_timestamp
    THEN current_time - cached_timestamp < CACHE_VALID_TIME
    ELSE FALSE

\* the test that opens chat_storage_get_messages_json
CacheHit(current_time) ==
    /\ cache_valid
    /\ ~cached_full_messages_json.null
    /\ CacheFresh(current_time, cached_full_messages_timestamp)

\* mutant: the save is triggered one message late
SaveDue_Late(n) == n > MIN_MESSAGES_TO_SAVE

\* new_messages_count >= MIN_MESSAGES_TO_SAVE
SaveDue(n) == n >= MIN_MESSAGES_TO_SAVE

(***************************************************************************)
(* NVS records.                                                            *)
(***************************************************************************)
Digit(d) == <<"0", "1", "2", "3", "4", "5", "6", "7", "8", "9">>[d + 1]

RECURSIVE Decimal(_)
\* printf("%lu")
Decimal(n) == IF n < 10 THEN <<Digit(n)>> ELSE Decimal(n \div 10) \o <<Digit(n % 10)>>

\* save_message_to_nvs: "%s|%s|%s|%lu"
EncodeMessage(m) ==
    m.uuid \o <<"|">> \o m.username \o <<"|">> \o m.message \o <<"|">>
           \o Decimal(m.timestamp)

\* the keys msg_0 .. msg_(n-1) after writing the first n records of copy
WriteRecords(msgs, copy, n) ==
    [i \in 1..(IF Len(msgs) > n THEN Len(msgs) ELSE n) |->
        IF i <= n THEN EncodeMessage(copy[i]) ELSE msgs[i]]

\* strchr from position from on: the first position that holds c, 0 for NULL
strchr(s, c, from) ==
    IF \E i \in from..Len(s) : s[i] = c
    THEN CHOOSE i \in from..Len(s) : s[i] = c /\ \A j \in from..(i - 1) : s[j] # c
    ELSE 0

IsDigit(ch) == \E d \in 0..9 : Digit(d) = ch
DigitValue(ch) == CHOOSE d \in 0..9 : Digit(d) = ch

RECURSIVE AtoiLoop(_, _, _)
AtoiLoop(s, i, acc) ==
    IF i > Len(s) \/ ~IsDigit(s[i]) THEN acc
    ELSE AtoiLoop(s, i + 1, acc * 10 + DigitValue(s[i]))

\* atoi: the value of the leading digits, 0 without one (the strings of this
\* model hold no white space and no sign)
atoi(s) == AtoiLoop(s, 1, 0)

\* the pieces of an object printed by cJSON_PrintUnformatted, see JsonMessage
JsonUuidKey == "{\"uuid\":\""
JsonUsernameKey == "\",\"username\":\""
JsonMessageKey == "\",\"message\":\""
JsonTimestampKey == "\",\"timestamp\":"
JsonEnd == "}"

\* cJSON_Parse and the four cJSON_GetObjectItem calls, for the objects this
\* model prints; anything else does not parse
cJSON_Parse(s) ==
    LET k1 == strchr(s, JsonUsernameKey, 1)
        k2 == strchr(s, JsonMessageKey, 1)
        k3 == strchr(s, JsonTimestampKey, 1)
    IN  IF /\ Len(s) >= 5
           /\ s[1] = JsonUuidKey /\ s[Len(s)] = JsonEnd
           /\ 1 < k1 /\ k1 < k2 /\ k2 < k3 /\ k3 < Len(s)
        THEN [ok |-> TRUE,
              message |-> Msg(strlcpy(SubSeq(s, 2, k1 - 1), MAX_UUID_LENGTH),
                              strlcpy(SubSeq(s, k1 + 1, k2 - 1), MAX_USERNAME_LENGTH),
                              strlcpy(SubSeq(s, k2 + 1, k3 - 1), MAX_MESSAGE_LENGTH),
                              atoi(SubSeq(s, k3 + 1, Len(s) - 1)))]
        ELSE [ok |-> FALSE, message |-> EmptyMsg]

\* load_message_from_nvs on the string read from the key: the fields between
\* the first three '|', the rest read by atoi; without three '|' the string
\* is parsed as JSON
load_message_from_nvs(msg_buf) ==
    LET uuid_end == strchr(msg_buf, "|", 1)
        username_end == IF uuid_end = 0 THEN 0 ELSE strchr(msg_buf, "|", uuid_end + 1)
        message_end == IF username_end = 0 THEN 0
                       ELSE strchr(msg_buf, "|", username_end + 1)
    IN  IF message_end # 0
        THEN [ok |-> TRUE,
              message |->
                  Msg(strlcpy(SubSeq(msg_buf, 1, uuid_end - 1), MAX_UUID_LENGTH),
                      strlcpy(SubSeq(msg_buf, uuid_end + 1, username_end - 1),
                              MAX_USERNAME_LENGTH),
                      strlcpy(SubSeq(msg_buf, username_end + 1, message_end - 1),
                              MAX_MESSAGE_LENGTH),
                      atoi(SubSeq(msg_buf, message_end + 1, Len(msg_buf))))]
        ELSE cJSON_Parse(msg_buf)

(***************************************************************************)
(* chat_storage.c: invalidate_cache.                                       *)
(***************************************************************************)
\* free the cached string, clear the pointer and the flag
invalidate_cache ==
    /\ cached_full_messages_json' = NULL
    /\ cache_valid' = FALSE
    /\ UNCHANGED cached_full_messages_timestamp

(***************************************************************************)
(* chat_storage.c: chat_storage_add_message.  uuid, username and message   *)
(* are pointers: NULL or Ptr(string).                                      *)
(***************************************************************************)
\* the NULL check, then the critical section: the slot write, the index
\* update and new_messages_count++
AddMessage_Store(t, uuid, username, message) ==
    /\ pc[t] = "idle"
    /\ Len(appended) < MaxAppends
    /\ IF uuid.null \/ username.null \/ message.null
       THEN /\ CallReturn(t, Ret("add", "ESP_ERR_INVALID_ARG", NULL, FALSE, FALSE, ""))
            /\ UNCHANGED <<chat_storage, new_messages_count, appended, pc>>
       ELSE /\ chat_storage' = StoreMessage(chat_storage, uuid.json, username.json,
                                            message.json, now)
            /\ new_messages_count' = new_messages_count + 1
            /\ appended' = Append(appended,
                                  StoredMessage(uuid.json, username.json,
                                                message.json, now))
            /\ pc' = [pc EXCEPT ![t] = "add_invalidate"]
            /\ Call(t)
    /\ UNCHANGED <<now, cached_full_messages_json, cached_full_messages_timestamp,
                   cache_valid, loc, nvs, flushes>>
    /\ UNCHANGED server_vars

\* after xSemaphoreGive: invalidate_cache()
AddMessage_Invalidate(t) ==
    /\ pc[t] = "add_invalidate"
    /\ invalidate_cache
    /\ pc' = [pc EXCEPT ![t] = "add_check"]
    /\ UNCHANGED <<now, chat_storage, new_messages_count, loc, ret, nvs, appended, flushes>>
    /\ UNCHANGED server_vars

\* if (new_messages_count >= MIN_MESSAGES_TO_SAVE), else return ESP_OK
AddMessage_Check(t) ==
    /\ pc[t] = "add_check"
    /\ IF SaveDue(new_messages_count)
       THEN /\ pc' = [pc EXCEPT ![t] = "add_reset"]
            /\ UNCHANGED ret
       ELSE /\ pc' = [pc EXCEPT ![t] = "idle"]
            /\ Return(t, Ret("add", "ESP_OK", NULL, FALSE, FALSE, ""))
    /\ UNCHANGED <<now, storage_vars, loc, nvs, appended, flushes>>
    /\ UNCHANGED server_vars

\* new_messages_count = 0; xTaskCreate(save_chat_history_task), which starts
\* a save task or fails, and then the caller saves synchronously
AddMessage_Reset(t, created) ==
    /\ pc[t] = "add_reset"
    /\ new_messages_count' = 0
    /\ flushes' = flushes + 1
    /\ IF created
       THEN \E s \in SaveTasks :
               /\ pc[s] = "none"
               /\ pc' = [pc EXCEPT ![s] = "save_copy", ![t] = "idle"]
               /\ Return(t,
                             Ret("add", "ESP_OK", NULL, FALSE, FALSE, ""))
               /\ UNCHANGED loc
       ELSE /\ pc' = [pc EXCEPT ![t] = "save_copy"]
            /\ loc' = [loc EXCEPT ![t].back = "add_return"]
            /\ UNCHANGED ret
    /\ UNCHANGED <<now, chat_storage, cached_full_messages_json,
                   cached_full_messages_timestamp, cache_valid, nvs,
                   appended>>
    /\ UNCHANGED server_vars

\* return ESP_OK after the synchronous save, whatever it returned
AddMessage_Return(t) ==
    /\ pc[t] = "add_return"
    /\ pc' = [pc EXCEPT ![t] = "idle"]
    /\ Return(t, Ret("add", "ESP_OK", NULL, FALSE, FALSE, ""))
    /\ loc' = [loc EXCEPT ![t].err = "ESP_OK"]
    /\ UNCHANGED <<now, storage_vars, nvs, appended, flushes>>
    /\ UNCHANGED server_vars

(***************************************************************************)
(* chat_storage.c: save_chat_history, run by a save task or by the caller. *)
(***************************************************************************)
\* mutant: nvs_commit is called after a record failed to be written too
Commits_DespiteSaveError(failed) == failed >= 0

\* if (!save_error) nvs_commit: what was set is committed when no call failed
Commits(failed) == failed = 0

\* where save_chat_history returns to
SaveDone(p) == IF p \in SaveTasks THEN "none" ELSE loc[p].back

\* the critical section: copy count messages; "No messages to save" returns
\* ESP_OK
Save_Copy(p) ==
    /\ pc[p] = "save_copy"
    /\ loc' = [loc EXCEPT ![p].copy = CopyMessages(chat_storage),
                           ![p].err = "ESP_OK"]
    /\ pc' = [pc EXCEPT ![p] = IF chat_storage.count = 0 THEN SaveDone(p)
                               ELSE "save_write"]
    /\ UNCHANGED <<now, storage_vars, ret, nvs, appended, flushes>>
    /\ UNCHANGED server_vars

\* nvs_open, nvs_set_i32(count), save_message_to_nvs for each record,
\* nvs_commit.  failed says which call fails: 0 none, -1 nvs_open, -2 the count
\* write, -3 nvs_commit, i >= 1 the write of record i (key msg_(i-1)).  What
\* was set before the failure stays set; only nvs_commit moves it to
\* committed.  The error of the failed call is returned
Save_Write(p, failed) ==
    /\ pc[p] = "save_write"
    /\ LET copy == loc[p].copy
           n == Len(copy)
           written == IF failed \in {0, -3} THEN n
                      ELSE IF failed \in {-1, -2} THEN 0 ELSE failed - 1
           count == IF failed \in {-1, -2} THEN nvs.count ELSE n
           msgs == WriteRecords(nvs.msgs, copy, written)
       IN  /\ failed \in (-3)..n
           /\ nvs' = [count |-> count, msgs |-> msgs,
                      committed |-> IF Commits(failed)
                                    THEN [count |-> count, msgs |-> msgs]
                                    ELSE nvs.committed,
                      saved |-> IF failed = 0 THEN copy ELSE nvs.saved]
    /\ pc' = [pc EXCEPT ![p] = SaveDone(p)]
    /\ loc' = [loc EXCEPT ![p].copy = <<>>,
                           ![p].err = IF failed = 0 THEN "ESP_OK" ELSE "ESP_FAIL"]
    /\ UNCHANGED <<now, storage_vars, ret, appended, flushes>>
    /\ UNCHANGED server_vars

(***************************************************************************)
(* chat_storage.c: chat_storage_get_messages_json.                         *)
(***************************************************************************)
\* current_time = time(NULL); a valid, fresh cache is returned as a copy
GetJson_Check(t) ==
    /\ pc[t] = "idle"
    /\ IF CacheHit(now)
       THEN /\ CallReturn(t, Ret("get_all", "ESP_OK",
                                  Ptr(cached_full_messages_json.json), TRUE, FALSE, ""))
            /\ UNCHANGED <<pc, loc>>
       ELSE /\ pc' = [pc EXCEPT ![t] = "json_copy"]
            /\ loc' = [loc EXCEPT ![t].time = now]
            /\ Call(t)
    /\ UNCHANGED <<now, storage_vars, nvs, appended, flushes>>
    /\ UNCHANGED server_vars

\* the critical section: copy count messages from start_idx on
GetJson_Copy(t) ==
    /\ pc[t] = "json_copy"
    /\ loc' = [loc EXCEPT ![t].copy = CopyMessages(chat_storage)]
    /\ pc' = [pc EXCEPT ![t] = "json_store"]
    /\ UNCHANGED <<now, storage_vars, ret, nvs, appended, flushes>>
    /\ UNCHANGED server_vars

\* build and print the JSON (printed is FALSE when cJSON runs out of memory:
\* NULL is returned and the cache is left alone), then replace the cache by a
\* strdup of it (duplicated is FALSE when strdup fails: the cache stays empty)
GetJson_Store(t, printed, duplicated) ==
    /\ pc[t] = "json_store"
    /\ IF ~printed
       THEN /\ Return(t,
                          Ret("get_all", "ESP_OK", NULL, FALSE, FALSE, ""))
            /\ UNCHANGED <<cached_full_messages_json,
                           cached_full_messages_timestamp, cache_valid>>
       ELSE /\ Return(t,
                          Ret("get_all", "ESP_OK", Ptr(loc[t].copy), FALSE, FALSE, ""))
            /\ IF duplicated
               THEN /\ cached_full_messages_json' = Ptr(loc[t].copy)
                    /\ cached_full_messages_timestamp' = loc[t].time
                    /\ cache_valid' = TRUE
               ELSE invalidate_cache
    /\ pc' = [pc EXCEPT ![t] = "idle"]
    /\ loc' = [loc EXCEPT ![t].copy = <<>>, ![t].time = 0]
    /\ UNCHANGED <<now, chat_storage, new_messages_count, nvs, appended, flushes>>
    /\ UNCHANGED server_vars

(***************************************************************************)
(* chat_storage.c: chat_storage_get_messages_since_json.                   *)
(***************************************************************************)
\* the critical section: copy all messages (copied is FALSE when malloc
\* fails: the answer is the error object, without messages)
GetSince_Copy(t, since_timestamp, copied) ==
    /\ pc[t] = "idle"
    /\ IF chat_storage.count > 0 /\ ~copied
       THEN /\ CallReturn(t, [Ret("get_since", "ESP_OK", Ptr(<<>>), FALSE, FALSE,
                                   "Server out of memory")
                                  EXCEPT !.since = since_timestamp])
            /\ UNCHANGED <<pc, loc>>
       ELSE /\ loc' = [loc EXCEPT ![t].copy = CopyMessages(chat_storage),
                                  ![t].since = since_timestamp]
            /\ pc' = [pc EXCEPT ![t] = "since_filter"]
            /\ Call(t)
    /\ UNCHANGED <<now, storage_vars, nvs, appended, flushes>>
    /\ UNCHANGED server_vars

\* outside the lock: keep the messages with timestamp > since_timestamp
GetSince_Filter(t) ==
    /\ pc[t] = "since_filter"
    /\ LET found == MessagesSince(loc[t].copy, loc[t].since)
       IN  Return(t, [Ret("get_since", "ESP_OK", Ptr(found), FALSE,
                          Len(found) > 0, "")
                         EXCEPT !.since = loc[t].since])
    /\ pc' = [pc EXCEPT ![t] = "idle"]
    /\ loc' = [loc EXCEPT ![t].copy = <<>>, ![t].since = 0]
    /\ UNCHANGED <<now, storage_vars, nvs, appended, flushes>>
    /\ UNCHANGED server_vars

(***************************************************************************)
(* chat_server.c: requests, responses and events.                          *)
(***************************************************************************)
\* the sockets of the stream connections, and the sockets the POST requests
\* arrive on: a handler is named by its socket
Fds == 1..(MAX_SSE_CLIENTS + 1)
Posters == (MAX_SSE_CLIENTS + 2)..(MAX_SSE_CLIENTS + 3)

\* what cJSON_GetObjectItem finds for a field of the request body: nothing,
\* an item that is not a string, or a string
Missing == [kind |-> "missing", valuestring |-> <<>>]
NotString == [kind |-> "number", valuestring |-> <<>>]
String(s) == [kind |-> "string", valuestring |-> s]
Request(uuid, username, message) ==
    [uuid |-> uuid, username |-> username, message |-> message]
NoRequest == Request(Missing, Missing, Missing)

\* the HTTP response of a handler, with the request it answers
Resp(status, text, req) == [status |-> status, text |-> text, req |-> req]
NoResp == Resp(0, "", NoRequest)

\* an event of the stream: "event: <type>\ndata: <data>\n\n"
Event(type, data) == [type |-> type, data |-> data]

\* a handler's locals: current_time, start_time, the time of the last loop
\* iteration, ping_count, messages_json, the event to notify, the clients an
\* allocation failed for, and what save_chat_history() returned
NoSloc == [time |-> 0, start_time |-> 0, woke |-> 0, ping_count |-> 0,
           json |-> NULL, event |-> <<>>, nomem |-> {}, err |-> "ESP_OK"]

\* !uuid_obj || ... || !cJSON_IsString(message_obj)
HasFields(req) ==
    /\ req.uuid.kind = "string"
    /\ req.username.kind = "string"
    /\ req.message.kind = "string"

\* mutant: a message of MAX_MESSAGE_LENGTH characters is too long
MessageTooLong_OrEqual(message) == Len(message) >= MAX_MESSAGE_LENGTH

\* strlen(message) > MAX_MESSAGE_LENGTH
MessageTooLong(message) == Len(message) > MAX_MESSAGE_LENGTH

\* the length test of post_message_handler (32 is sizeof(username))
InvalidLength(uuid, username, message) ==
    \/ Len(uuid) >= MAX_UUID_LENGTH
    \/ Len(username) >= MAX_USERNAME_LENGTH
    \/ MessageTooLong(message)
    \/ Len(message) = 0

\* cJSON_PrintUnformatted of a message object (the strings of this model hold
\* no character that JSON escapes)
JsonMessage(m) ==
    <<"{\"uuid\":\"">> \o m.uuid \o <<"\",\"username\":\"">> \o m.username
        \o <<"\",\"message\":\"">> \o m.message \o <<"\",\"timestamp\":">>
        \o Decimal(m.timestamp) \o <<"}">>

\* the keys msg_0 .. msg_(n-1) after chat_server.c's save_message_to_nvs wrote
\* the first n records of copy
WriteJsonRecords(msgs, copy, n) ==
    [i \in 1..(IF Len(msgs) > n THEN Len(msgs) ELSE n) |->
        IF i <= n THEN JsonMessage(copy[i]) ELSE msgs[i]]

(***************************************************************************)
(* chat_server.c: the list of SSE clients.                                 *)
(***************************************************************************)
\* httpd_socket_send returns < 0 on a socket that is not open
SendOk(fd) == sock[fd] = "open"

\* what was sent after one more httpd_socket_send to fd
Send(out, fd, event) ==
    IF SendOk(fd) THEN [out EXCEPT ![fd] = Append(@, event)] ELSE out

\* mutant: every fd is taken to be in the list
InList_Always(list, fd) == TRUE

\* a client with this fd is in the list
InList(list, fd) == \E i \in DOMAIN list : list[i].fd = fd

\* current_time - client->last_activity > 300 in uint32_t: a negative
\* difference wraps to 2^32 minus it, which is above the limit
Inactive(client, current_time) ==
    IF current_time >= client.last_activity
    THEN current_time - client.last_activity > InactiveSeconds
    ELSE TRUE

RECURSIVE CleanupLoop(_, _, _)
\* the loop of cleanup_sse_clients: an inactive client is sent "event: close"
\* and unlinked
CleanupLoop(list, out, current_time) ==
    IF list = <<>> THEN [clients |-> <<>>, sent |-> out]
    ELSE LET client == Head(list)
         IN  IF Inactive(client, current_time)
             THEN CleanupLoop(Tail(list), Send(out, client.fd, Event("close", <<>>)),
                              current_time)
             ELSE LET r == CleanupLoop(Tail(list), out, current_time)
                  IN  [clients |-> <<client>> \o r.clients, sent |-> r.sent]

\* cleanup_sse_clients, the critical section
cleanup_sse_clients(current_time) ==
    LET r == CleanupLoop(sse_clients, sent, current_time)
    IN  /\ sse_clients' = r.clients
        /\ sent' = r.sent
        /\ sse_client_count' = sse_client_count - (Len(sse_clients) - Len(r.clients))

\* mutant: when no client has this fd the head of the list is unlinked
RemoveFirst_AbsentDropsHead(list, fd) ==
    IF \E i \in DOMAIN list : list[i].fd = fd
    THEN SelectSeq(list, LAMBDA client : client.fd # fd)
    ELSE IF list = <<>> THEN <<>> ELSE Tail(list)

RECURSIVE RemoveFirst(_, _)
\* the loop of remove_sse_client: unlink the first client with this fd
RemoveFirst(list, fd) ==
    IF list = <<>> THEN <<>>
    ELSE IF Head(list).fd = fd THEN Tail(list)
    ELSE <<Head(list)>> \o RemoveFirst(Tail(list), fd)

\* remove_sse_client
remove_sse_client(fd) ==
    /\ sse_clients' = RemoveFirst(sse_clients, fd)
    /\ sse_client_count' = IF InList(sse_clients, fd) THEN sse_client_count - 1
                           ELSE sse_client_count

\* mutant: the list is full one client late
ListFull_Late(count) == count > MAX_SSE_CLIENTS

\* sse_client_count >= MAX_SSE_CLIENTS
ListFull(count) == count >= MAX_SSE_CLIENTS

RECURSIVE NotifyLoop_AbortOnFailure(_, _, _, _, _)
\* mutant: the loop ends at the first client the send fails for
NotifyLoop_AbortOnFailure(list, out, event, nomem, current_time) ==
    IF list = <<>> THEN [clients |-> <<>>, sent |-> out]
    ELSE LET client == Head(list)
         IN  IF client.fd \in nomem
             THEN LET r == NotifyLoop_AbortOnFailure(Tail(list), out, event, nomem,
                                                     current_time)
                  IN  [clients |-> <<client>> \o r.clients, sent |-> r.sent]
             ELSE IF ~SendOk(client.fd)
             THEN [clients |-> Tail(list), sent |-> out]
             ELSE LET r == NotifyLoop_AbortOnFailure(Tail(list),
                                                     Send(out, client.fd, event),
                                                     event, nomem, current_time)
                  IN  [clients |-> <<[client EXCEPT !.last_activity = current_time]>>
                                       \o r.clients,
                       sent |-> r.sent]

\* mutant: notify_sse_clients sends nothing
NotifyLoop_NoSend(list, out, event, nomem, current_time) ==
    [clients |-> list, sent |-> out]

RECURSIVE NotifyLoop(_, _, _, _, _)
\* the loop of notify_sse_clients.  nomem holds the clients asprintf fails
\* for: they are skipped.  A client the send fails for is unlinked, any other
\* gets the event and last_activity = current_time
NotifyLoop(list, out, event, nomem, current_time) ==
    IF list = <<>> THEN [clients |-> <<>>, sent |-> out]
    ELSE LET client == Head(list)
         IN  IF client.fd \in nomem
             THEN LET r == NotifyLoop(Tail(list), out, event, nomem, current_time)
                  IN  [clients |-> <<client>> \o r.clients, sent |-> r.sent]
             ELSE IF ~SendOk(client.fd)
             THEN NotifyLoop(Tail(list), out, event, nomem, current_time)
             ELSE LET r == NotifyLoop(Tail(list), Send(out, client.fd, event),
                                      event, nomem, current_time)
                  IN  [clients |-> <<[client EXCEPT !.last_activity = current_time]>>
                                       \o r.clients,
                       sent |-> r.sent]

(***************************************************************************)
(* chat_server.c: sse_handler, run for the connection on socket f.         *)
(***************************************************************************)
\* what no handler of chat_server.c touches
storage_side == <<chat_storage, cached_full_messages_json,
                  cached_full_messages_timestamp, cache_valid, new_messages_count,
                  pc, loc, ret, appended, flushes, mutexes>>

\* a client connects and requests the stream: sse_handler starts, and
\* add_sse_client calls cleanup_sse_clients, which reads the time
Sse_Open(f) ==
    /\ sock[f] = "closed"
    /\ spc[f] = "closed"
    /\ sock' = [sock EXCEPT ![f] = "open"]
    /\ spc' = [spc EXCEPT ![f] = "sse_sweep"]
    /\ sloc' = [sloc EXCEPT ![f] = [NoSloc EXCEPT !.time = now]]
    /\ UNCHANGED <<now, storage_side, nvs, server_storage, sse_clients,
                   sse_client_count, resp, sent, posted>>

\* cleanup_sse_clients under sse_mutex, called by add_sse_client or by the loop
Sse_Sweep(f) ==
    /\ spc[f] \in {"sse_sweep", "sse_loop_sweep"}
    /\ cleanup_sse_clients(sloc[f].time)
    /\ spc' = [spc EXCEPT ![f] = IF spc[f] = "sse_sweep" THEN "sse_add" ELSE "sse_loop"]
    /\ sloc' = [sloc EXCEPT ![f].time = 0]
    /\ UNCHANGED <<now, storage_side, nvs, server_storage, sock, resp, posted>>

\* add_sse_client under sse_mutex: nothing when the list is full or malloc
\* fails (allocated is FALSE), else the client is linked at the head
Sse_Add(f, allocated) ==
    /\ spc[f] = "sse_add"
    /\ IF ListFull(sse_client_count)
       THEN UNCHANGED <<sse_clients, sse_client_count, sloc>>
       ELSE IF allocated
       THEN /\ sse_clients' = <<[fd |-> f, last_activity |-> now]>> \o sse_clients
            /\ sse_client_count' = sse_client_count + 1
            /\ UNCHANGED sloc
       ELSE /\ sloc' = [sloc EXCEPT ![f].nomem = {f}]
            /\ UNCHANGED <<sse_clients, sse_client_count>>
    /\ spc' = [spc EXCEPT ![f] = "sse_check"]
    /\ UNCHANGED <<now, storage_side, nvs, server_storage, sock, resp, sent,
                   posted>>

\* the search for fd under sse_mutex: without it "Maximum clients reached"
\* is answered and the handler returns ESP_FAIL
Sse_Check(f) ==
    /\ spc[f] = "sse_check"
    /\ IF InList(sse_clients, f)
       THEN /\ spc' = [spc EXCEPT ![f] = "sse_snapshot"]
            /\ UNCHANGED resp
       ELSE /\ spc' = [spc EXCEPT ![f] = "done"]
            /\ resp' = [resp EXCEPT ![f] = Resp(400, "Maximum clients reached", NoRequest)]
    /\ sloc' = [sloc EXCEPT ![f].nomem = {}]
    /\ UNCHANGED <<now, storage_side, nvs, server_storage, sse_clients,
                   sse_client_count, sock, sent, posted>>

\* get_chat_messages_json: the array is built under chat_mutex; NULL when
\* cJSON runs out of memory (created is FALSE), and then nothing is sent
\* and the loop starts
Sse_Snapshot(f, created) ==
    /\ spc[f] = "sse_snapshot"
    /\ IF created
       THEN /\ sloc' = [sloc EXCEPT ![f].json = Ptr(CopyMessages(server_storage))]
            /\ spc' = [spc EXCEPT ![f] = "sse_send"]
       ELSE /\ sloc' = [sloc EXCEPT ![f].start_time = now, ![f].woke = now]
            /\ spc' = [spc EXCEPT ![f] = "sse_loop"]
    /\ UNCHANGED <<now, storage_side, nvs, server_storage, sse_clients,
                   sse_client_count, sock, resp, sent, posted>>

\* "event: messages" is sent; when asprintf (formatted is FALSE) or the send
\* fails the client is removed and the handler returns ESP_FAIL
Sse_Send(f, formatted) ==
    /\ spc[f] = "sse_send"
    /\ IF formatted /\ SendOk(f)
       THEN /\ sent' = Send(sent, f, Event("messages", sloc[f].json.json))
            /\ sloc' = [sloc EXCEPT ![f].json = NULL, ![f].start_time = now,
                                    ![f].woke = now]
            /\ spc' = [spc EXCEPT ![f] = "sse_loop"]
       ELSE /\ sloc' = [sloc EXCEPT ![f].json = NULL]
            /\ spc' = [spc EXCEPT ![f] = "sse_remove"]
            /\ UNCHANGED sent
    /\ UNCHANGED <<now, storage_side, nvs, server_storage, sse_clients,
                   sse_client_count, sock, resp, posted>>

\* mutant: the connection time is never exceeded
LifetimeExceeded_Never(current_time, start_time) == FALSE

\* current_time - start_time > max_connection_time (start_time was read by
\* the same task before current_time, so that the difference does not wrap)
LifetimeExceeded(current_time, start_time) ==
    current_time - start_time > max_connection_time

\* one iteration of the loop, after vTaskDelay of 2 seconds: the socket is
\* probed, the connection time is checked, and every PingEvery-th iteration
\* sends "event: ping" and calls cleanup_sse_clients
Sse_Loop(f) ==
    /\ spc[f] = "sse_loop"
    /\ now > sloc[f].woke
    /\ IF ~SendOk(f)
       THEN /\ spc' = [spc EXCEPT ![f] = "sse_remove"]
            /\ UNCHANGED <<sent, sloc>>
       ELSE IF LifetimeExceeded(now, sloc[f].start_time)
       THEN /\ sent' = Send(sent, f, Event("close", <<"timeout">>))
            /\ spc' = [spc EXCEPT ![f] = "sse_remove"]
            /\ UNCHANGED sloc
       ELSE IF sloc[f].ping_count + 1 >= PingEvery
       THEN /\ sent' = Send(sent, f, Event("ping", <<>>))
            /\ sloc' = [sloc EXCEPT ![f].ping_count = 0, ![f].woke = now,
                                    ![f].time = now]
            /\ spc' = [spc EXCEPT ![f] = "sse_loop_sweep"]
       ELSE /\ sloc' = [sloc EXCEPT ![f].ping_count = @ + 1, ![f].woke = now]
            /\ UNCHANGED <<sent, spc>>
    /\ UNCHANGED <<now, storage_side, nvs, server_storage, sse_clients,
                   sse_client_count, sock, resp, posted>>

\* remove_sse_client under sse_mutex, and the handler returns
Sse_Remove(f) ==
    /\ spc[f] = "sse_remove"
    /\ remove_sse_client(f)
    /\ spc' = [spc EXCEPT ![f] = "done"]
    /\ UNCHANGED <<now, storage_side, nvs, server_storage, sock, sloc, resp,
                   sent, posted>>

\* the socket is closed after the handler returned: chat_disconnect_handler
\* calls remove_sse_client.  What was answered and sent on it is forgotten
Disconnect(f) ==
    /\ spc[f] = "done"
    /\ remove_sse_client(f)
    /\ sock' = [sock EXCEPT ![f] = "closed"]
    /\ spc' = [spc EXCEPT ![f] = "closed"]
    /\ sloc' = [sloc EXCEPT ![f] = NoSloc]
    /\ resp' = [resp EXCEPT ![f] = NoResp]
    /\ sent' = [sent EXCEPT ![f] = <<>>]
    /\ UNCHANGED <<now, storage_side, nvs, server_storage, posted>>

\* the peer of an open socket goes away: sends to it fail from now on
Drop(f) ==
    /\ sock[f] = "open"
    /\ sock' = [sock EXCEPT ![f] = "dead"]
    /\ UNCHANGED <<now, storage_side, nvs, server_storage, sse_clients,
                   sse_client_count, spc, sloc, resp, sent, posted>>

(***************************************************************************)
(* chat_server.c: post_message_handler, run by task p.                     *)
(***************************************************************************)
\* the field checks, then add_chat_message's critical section: the slot
\* write and the index update.  A request that fails a check is answered 400
\* and the handler returns
Post_Add(p, req) ==
    /\ spc[p] = "idle"
    /\ IF ~HasFields(req)
       THEN /\ resp' = [resp EXCEPT ![p] = Resp(400, "Missing required fields", req)]
            /\ UNCHANGED <<server_storage, posted, spc>>
       ELSE IF InvalidLength(req.uuid.valuestring, req.username.valuestring,
                             req.message.valuestring)
       THEN /\ resp' = [resp EXCEPT ![p] = Resp(400, "Invalid field length", req)]
            /\ UNCHANGED <<server_storage, posted, spc>>
       ELSE /\ server_storage' = StoreMessage(server_storage, req.uuid.valuestring,
                                              req.username.valuestring,
                                              req.message.valuestring, now)
            /\ posted' = Append(posted,
                                StoredMessage(req.uuid.valuestring,
                                              req.username.valuestring,
                                              req.message.valuestring, now))
            /\ resp' = [resp EXCEPT ![p] = Resp(0, "", req)]
            /\ spc' = [spc EXCEPT ![p] = "post_save"]
    /\ UNCHANGED <<now, storage_side, nvs, sse_clients, sse_client_count, sock,
                   sloc, sent>>

\* chat_server.c's save_chat_history up to xSemaphoreGive: nvs_open, and
\* under chat_mutex nvs_set_i32(count) and save_message_to_nvs for each
\* message.  failed says which call fails: 0 none, -1 nvs_open, -2 the count
\* write, i >= 1 the write of record i.  After a failure nothing is committed
Post_Save(p, failed) ==
    /\ spc[p] = "post_save"
    /\ LET copy == CopyMessages(server_storage)
           n == Len(copy)
           written == IF failed = 0 THEN n ELSE IF failed < 0 THEN 0 ELSE failed - 1
       IN  /\ failed \in (-2)..n
           /\ nvs' = [nvs EXCEPT !.count = IF failed < 0 THEN @ ELSE n,
                                 !.msgs = WriteJsonRecords(@, copy, written)]
    /\ spc' = [spc EXCEPT ![p] = IF failed = 0 THEN "post_commit" ELSE "post_build"]
    /\ sloc' = [sloc EXCEPT ![p].err = IF failed = 0 THEN "ESP_OK" ELSE "ESP_FAIL"]
    /\ UNCHANGED <<now, storage_side, server_storage, sse_clients,
                   sse_client_count, sock, resp, sent, posted>>

\* nvs_commit, which writes what was set or fails (committed is FALSE)
Post_Commit(p, committed) ==
    /\ spc[p] = "post_commit"
    /\ nvs' = [nvs EXCEPT !.committed = IF committed
                                        THEN [count |-> nvs.count, msgs |-> nvs.msgs]
                                        ELSE @]
    /\ spc' = [spc EXCEPT ![p] = "post_build"]
    /\ sloc' = [sloc EXCEPT ![p].err = IF committed THEN "ESP_OK" ELSE "ESP_FAIL"]
    /\ UNCHANGED <<now, storage_side, server_storage, sse_clients,
                   sse_client_count, sock, resp, sent, posted>>

\* mutant: add_chat_message returns what save_chat_history returned
add_chat_message_SaveResult(err) == err

\* add_chat_message: save_chat_history(); return ESP_OK;
add_chat_message(err) == "ESP_OK"

\* add_chat_message returns; 500 "Failed to add message" is answered unless
\* it returned ESP_OK.  Else the JSON of the new message is built, with a
\* timestamp read again; 500 is answered when cJSON_CreateObject (built = 1)
\* or cJSON_PrintUnformatted (built = 2) runs out of memory.  Then
\* notify_sse_clients reads the time
Post_Build(p, built) ==
    /\ spc[p] = "post_build"
    /\ built \in 0..2
    /\ IF add_chat_message(sloc[p].err) # "ESP_OK"
       THEN /\ resp' = [resp EXCEPT ![p].status = 500,
                                    ![p].text = "Failed to add message"]
            /\ spc' = [spc EXCEPT ![p] = "idle"]
            /\ sloc' = [sloc EXCEPT ![p].err = "ESP_OK"]
       ELSE IF built = 0
       THEN /\ sloc' = [sloc EXCEPT
                          ![p].err = "ESP_OK",
                          ![p].event = <<Event("message",
                                               <<Msg(resp[p].req.uuid.valuestring,
                                                     resp[p].req.username.valuestring,
                                                     resp[p].req.message.valuestring,
                                                     now)>>)>>,
                          ![p].time = now]
            /\ spc' = [spc EXCEPT ![p] = "post_notify"]
            /\ UNCHANGED resp
       ELSE /\ resp' = [resp EXCEPT ![p].status = 500,
                                    ![p].text = IF built = 1
                                                THEN "Failed to create JSON"
                                                ELSE "Failed to create JSON message"]
            /\ spc' = [spc EXCEPT ![p] = "idle"]
            /\ sloc' = [sloc EXCEPT ![p].err = "ESP_OK"]
    /\ UNCHANGED <<now, storage_side, nvs, server_storage, sse_clients,
                   sse_client_count, sock, sent, posted>>

\* notify_sse_clients under sse_mutex, then 201 is answered.  nomem holds the
\* clients asprintf fails for
Post_Notify(p, nomem) ==
    /\ spc[p] = "post_notify"
    /\ LET r == NotifyLoop(sse_clients, sent, sloc[p].event[1], nomem, sloc[p].time)
       IN  /\ sse_clients' = r.clients
           /\ sent' = r.sent
           /\ sse_client_count' = sse_client_count - (Len(sse_clients) - Len(r.clients))
    /\ sloc' = [sloc EXCEPT ![p] = [NoSloc EXCEPT !.nomem = nomem]]
    /\ resp' = [resp EXCEPT ![p].status = 201, ![p].text = "{\"status\":\"success\"}"]
    /\ spc' = [spc EXCEPT ![p] = "idle"]
    /\ UNCHANGED <<now, storage_side, nvs, server_storage, sock, posted>>

(***************************************************************************)
(* The clock.                                                              *)
(***************************************************************************)
Tick ==
    /\ now < MaxTime
    /\ now' = now + 1
    /\ UNCHANGED <<storage_vars, pc, loc, ret, nvs, appended, flushes>>
    /\ UNCHANGED server_vars

(***************************************************************************)
(* Inputs.                                                                 *)
(***************************************************************************)
\* the callers of chat_storage.c number their messages: the k-th message
\* stored has the text "mk", so that any two stored messages differ
Uuids == {Ptr(<<"u">>)}
Usernames == {Ptr(<<"n">>)}
Bodies == {Ptr(<<"m", Digit(Len(appended) + 1)>>)}

\* the NVS calls that fail in a save: none, nvs_commit, record 1
SaveFailures == {0, -3, 1}

(***************************************************************************)
(* The state after chat_storage_init() on an empty NVS namespace.          *)
(***************************************************************************)
Init ==
    /\ now = 0
    /\ chat_storage = [messages |-> [i \in 0..(MAX_MESSAGES - 1) |-> EmptyMsg],
                       count |-> 0, next_index |-> 0]
    /\ cached_full_messages_json = NULL
    /\ cached_full_messages_timestamp = 0
    /\ cache_valid = FALSE
    /\ new_messages_count = 0
    /\ pc = [p \in Tasks \cup SaveTasks |-> IF p \in Tasks THEN "idle" ELSE "none"]
    /\ loc = [p \in Tasks \cup SaveTasks |-> NoLoc]
    /\ ret = [p \in Tasks |-> NoRet]
    /\ nvs = [count |-> 0, msgs |-> <<>>, committed |-> [count |-> 0, msgs |-> <<>>],
              saved |-> <<>>]
    /\ appended = <<>>
    /\ flushes = 0
    /\ server_storage = [messages |-> [i \in 0..(MAX_MESSAGES - 1) |-> EmptyMsg],
                         count |-> 0, next_index |-> 0]
    /\ sse_clients = <<>>
    /\ sse_client_count = 0
    /\ sock = [f \in Fds |-> "closed"]
    /\ spc = [h \in Posters \cup Fds |-> IF h \in Posters THEN "idle" ELSE "closed"]
    /\ sloc = [h \in Posters \cup Fds |-> NoSloc]
    /\ resp = [h \in Posters \cup Fds |-> NoResp]
    /\ sent = [f \in Fds |-> <<>>]
    /\ posted = <<>>
    /\ chat_mutex = {}
    /\ server_mutex = {}
    /\ sse_mutex = {}

\* one step of a call into chat_storage.c made by task t
StorageStep(t) ==
    \/ \E u \in Uuids \cup {NULL}, n \in Usernames, m \in Bodies :
          AddMessage_Store(t, u, n, m)
    \/ AddMessage_Invalidate(t)
    \/ AddMessage_Check(t)
    \/ \E created \in BOOLEAN : AddMessage_Reset(t, created)
    \/ AddMessage_Return(t)
    \/ GetJson_Check(t)
    \/ GetJson_Copy(t)
    \/ \E printed, duplicated \in BOOLEAN : GetJson_Store(t, printed, duplicated)
    \/ \E since \in 0..MaxTime, copied \in BOOLEAN : GetSince_Copy(t, since, copied)
    \/ GetSince_Filter(t)

\* one step of save_chat_history
SaveStep(p) ==
    \/ Save_Copy(p)
    \/ \E failed \in SaveFailures : Save_Write(p, failed)

(***************************************************************************)
(* SpecSeq: one caller at a time makes the calls into chat_storage.c (the  *)
(* save tasks run beside it).                                              *)
(***************************************************************************)
NextSeq ==
    \/ StorageStep("t1")
    \/ \E p \in SaveTasks \cup {"t1"} : SaveStep(p)
    \/ Tick

SpecSeq == Init /\ [][NextSeq]_vars

(***************************************************************************)
(* SpecCache: two tasks call chat_storage_add_message and                  *)
(* chat_storage_get_messages_json concurrently, MaxCacheAppends times      *)
(* chat_storage_add_message at most, and the saves succeed.                *)
(***************************************************************************)
CacheStep(t) ==
    \/ \E u \in Uuids, n \in Usernames, m \in Bodies :
          /\ Len(appended) < MaxCacheAppends
          /\ AddMessage_Store(t, u, n, m)
    \/ AddMessage_Invalidate(t)
    \/ AddMessage_Check(t)
    \/ \E created \in BOOLEAN : AddMessage_Reset(t, created)
    \/ AddMessage_Return(t)
    \/ GetJson_Check(t)
    \/ GetJson_Copy(t)
    \/ \E duplicated \in BOOLEAN : GetJson_Store(t, TRUE, duplicated)

NextCache ==
    \/ \E t \in Tasks : CacheStep(t)
    \/ \E p \in SaveTasks \cup Tasks : Save_Copy(p) \/ Save_Write(p, 0)
    \/ Tick

SpecCache == Init /\ [][NextCache]_vars

(***************************************************************************)
(* The requests and the steps of the handlers of chat_server.c.            *)
(***************************************************************************)
\* the posters number their messages: the k-th message posted has the text
\* "mk", so that any two posted messages differ
PostRequests ==
    {Request(String(<<"u">>), String(<<"n">>),
             String(<<"m", Digit(Len(posted) + 1)>>))}

\* one step of the connection on socket f; ok holds the outcomes of its
\* allocations, TRUE for success
SseStep(f, ok) ==
    \/ Sse_Open(f)
    \/ Sse_Sweep(f)
    \/ \E allocated \in ok : Sse_Add(f, allocated)
    \/ Sse_Check(f)
    \/ \E created \in ok : Sse_Snapshot(f, created)
    \/ \E formatted \in ok : Sse_Send(f, formatted)
    \/ Sse_Loop(f)
    \/ Sse_Remove(f)
    \/ Disconnect(f)
    \/ Drop(f)

\* one step of a POST request served by task p, unless max messages are
\* posted; the saves succeed, and ok holds the outcomes of the allocations
PostStep(p, max, ok) ==
    \/ \E req \in PostRequests :
          /\ Len(posted) < max
          /\ Post_Add(p, req)
    \/ Post_Save(p, 0)
    \/ Post_Commit(p, TRUE)
    \/ \E built \in IF FALSE \in ok THEN 0..2 ELSE {0} : Post_Build(p, built)
    \/ \E nomem \in IF FALSE \in ok THEN {{}} \cup {{f} : f \in Fds} ELSE {{}} :
          Post_Notify(p, nomem)

\* the clock of SpecRegistry, SpecBroadcast and SpecPost
SseTick ==
    /\ now < MaxSseTime
    /\ Tick

(***************************************************************************)
(* SpecRegistry: stream connections on the sockets Fds come and go.        *)
(* Allocations may fail.                                                   *)
(***************************************************************************)
NextRegistry ==
    \/ \E f \in Fds : SseStep(f, BOOLEAN)
    \/ SseTick

SpecRegistry == Init /\ [][NextRegistry]_vars

(***************************************************************************)
(* SpecBroadcast: stream connections on MAX_SSE_CLIENTS sockets, and one   *)
(* task that posts a message.  Allocations may fail.                       *)
(***************************************************************************)
NextBroadcast ==
    \/ \E f \in 1..MAX_SSE_CLIENTS : SseStep(f, BOOLEAN)
    \/ PostStep(MAX_SSE_CLIENTS + 2, MaxBroadcastPosts, BOOLEAN)
    \/ SseTick

SpecBroadcast == Init /\ [][NextBroadcast]_vars

(***************************************************************************)
(* SpecStream: one stream connection, and two tasks that post MaxPosts     *)
(* messages at most.  Allocations succeed.                                 *)
(***************************************************************************)
NextStream ==
    \/ SseStep(1, {TRUE})
    \/ \E p \in Posters : PostStep(p, MaxPosts, {TRUE})
    \/ Tick

SpecStream == Init /\ [][NextStream]_vars

(***************************************************************************)
(* SpecPost: one stream connection, and one task that posts requests in    *)
(* which one field is missing, not a string, empty, or of the longest      *)
(* allowed length or one character more, and the other fields are of the   *)
(* longest allowed length.  Saves and allocations may fail.                *)
(***************************************************************************)
LongestUuid == String(Rep("u", MAX_UUID_LENGTH - 1))
LongestUsername == String(Rep("n", MAX_USERNAME_LENGTH - 1))
LongestMessage == String(Rep("m", MAX_MESSAGE_LENGTH))

ValidationRequests ==
    {Request(u, LongestUsername, LongestMessage) :
        u \in {Missing, NotString, LongestUuid, String(Rep("u", MAX_UUID_LENGTH))}}
    \cup
    {Request(LongestUuid, n, LongestMessage) :
        n \in {Missing, NotString, String(Rep("n", MAX_USERNAME_LENGTH))}}
    \cup
    {Request(LongestUuid, LongestUsername, m) :
        m \in {Missing, NotString, String(<<>>), String(<<"m">>),
               String(Rep("m", MAX_MESSAGE_LENGTH + 1))}}

NextPost ==
    \/ SseStep(1, {TRUE})
    \/ \E req \in ValidationRequests :
          /\ Len(posted) < MaxPosts
          /\ Post_Add(MAX_SSE_CLIENTS + 2, req)
    \/ \E failed \in {0, -1, 1} : Post_Save(MAX_SSE_CLIENTS + 2, failed)
    \/ \E committed \in BOOLEAN : Post_Commit(MAX_SSE_CLIENTS + 2, committed)
    \/ \E built \in 0..2 : Post_Build(MAX_SSE_CLIENTS + 2, built)
    \/ Post_Notify(MAX_SSE_CLIENTS + 2, {})
    \/ SseTick

SpecPost == Init /\ [][NextPost]_vars

(***************************************************************************)
(* Properties.                                                             *)
(***************************************************************************)
\* the last n elements of a sequence
LastN(seq, n) == SubSeq(seq, Len(seq) - Min(Len(seq), n) + 1, Len(seq))

\* the single caller of SpecSeq is between two calls
Idle == pc["t1"] = "idle"

\* C1: after any sequence of appends, also more than MAX_MESSAGES of them,
\* the ring read from its start index, and the array every completed
\* chat_storage_get_messages_json call returned, is the sequence of the last
\* min(total appends, MAX_MESSAGES) messages in the order they were appended
C1_SnapshotIsLastAppended ==
    /\ CopyMessages(chat_storage) = LastN(appended, MAX_MESSAGES)
    /\ Len(CopyMessages(chat_storage)) = Min(Len(appended), MAX_MESSAGES)
    /\ (Idle /\ ret["t1"].op = "get_all" /\ ~ret["t1"].json.null)
          => ret["t1"].json.json = LastN(appended, MAX_MESSAGES)

\* C1 witness: more messages were appended than the ring holds and the
\* messages were then read
C1_Witness ==
    /\ Idle
    /\ Len(appended) > MAX_MESSAGES
    /\ ret["t1"].op = "get_all" /\ ~ret["t1"].hit /\ ~ret["t1"].json.null
    /\ Len(ret["t1"].json.json) = MAX_MESSAGES

C3_NextGetAllHasNewMessage ==
    (/\ Idle
     /\ ret["t1"].op = "get_all" /\ ~ret["t1"].hit /\ ~ret["t1"].json.null
     /\ ret["t1"].prev = [op |-> "add", status |-> "ESP_OK"])
       => /\ ret["t1"].json.json # <<>>
          /\ ret["t1"].json.json[Len(ret["t1"].json.json)] = appended[Len(appended)]

\* C3 witness: such a call, right after an append that overwrote a slot
C3_Witness ==
    /\ Idle
    /\ ret["t1"].op = "get_all" /\ ~ret["t1"].hit /\ ~ret["t1"].json.null
    /\ ret["t1"].prev = [op |-> "add", status |-> "ESP_OK"]
    /\ Len(appended) > MAX_MESSAGES

\* C10: with one caller, between calls new_messages_count is the number of
\* appends modulo MIN_MESSAGES_TO_SAVE and one save has been triggered for
\* every MIN_MESSAGES_TO_SAVE appends
C10_OneSavePerBatch ==
    Idle => /\ new_messages_count = Len(appended) % MIN_MESSAGES_TO_SAVE
            /\ flushes = Len(appended) \div MIN_MESSAGES_TO_SAVE

\* C10 witness: the second batch has been completed
C10_Witness ==
    /\ Idle
    /\ Len(appended) = 2 * MIN_MESSAGES_TO_SAVE
    /\ flushes = 2
    /\ new_messages_count = 0

\* the elements of a sequence
Range(seq) == {seq[i] : i \in DOMAIN seq}

\* every chat_storage_add_message call so far has finished invalidate_cache()
InvalidationsDone == \A t \in Tasks : pc[t] # "add_invalidate"

\* C4: a chat_storage_get_messages_json call that is issued when every append
\* has completed its cache invalidation, and is answered from the cache,
\* returns an array that holds every retained message
C4_NoStaleCacheAfterInvalidation ==
    [][\A t \in Tasks :
          (/\ InvalidationsDone
           /\ ret'[t] # ret[t]
           /\ ret'[t].op = "get_all" /\ ret'[t].hit)
             => Range(LastN(appended, MAX_MESSAGES)) \subseteq Range(ret'[t].json.json)
      ]_vars

\* the "message" events sent on socket f, in the order they were sent
MessageEvents(f) == SelectSeq(sent[f], LAMBDA e : e.type = "message")

\* the place in the log of the message an event carries
LogIndex(e) == CHOOSE k \in DOMAIN posted : posted[k].message = e.data[1].message

\* C8: on every socket the "message" events are sent in the order in which
\* add_chat_message stored their messages under chat_mutex
C8_EventsInLogOrder ==
    \A f \in Fds :
        \A i, j \in DOMAIN MessageEvents(f) :
            i < j => LogIndex(MessageEvents(f)[i]) < LogIndex(MessageEvents(f)[j])

\* C9: while sse_handler has not yet sent "event: messages" on its socket, no
\* "message" event has been sent on it
C9_NoMessageBeforeSnapshot ==
    \A f \in Fds :
        spc[f] \in {"sse_check", "sse_snapshot", "sse_send"}
            => MessageEvents(f) = <<>>

C6_FailedSendRemovesOnlyThatClient ==
    [][\A p \in Posters :
          (spc[p] = "post_notify" /\ spc'[p] = "idle")
             => /\ \A i \in DOMAIN sse_clients :
                      LET client == sse_clients[i]
                      IN  \/ client.fd \in sloc'[p].nomem
                          \/ /\ sock[client.fd] = "open"
                             /\ sent'[client.fd] =
                                    Append(sent[client.fd], sloc[p].event[1])
                             /\ \E j \in DOMAIN sse_clients' :
                                   sse_clients'[j] = [fd |-> client.fd,
                                                      last_activity |-> sloc[p].time]
                          \/ /\ sock[client.fd] # "open"
                             /\ ~InList(sse_clients', client.fd)
                             /\ sent'[client.fd] = sent[client.fd]
                /\ sse_client_count' = Len(sse_clients')
      ]_vars

\* a message was notified, without an allocation failure, at time 0: the
\* client on a dead socket is unlinked while its handler is still in the
\* loop, and another client is in the list and got the event last
C6_Witness ==
    \E p \in Posters, f, g \in Fds :
        /\ spc[p] = "idle" /\ resp[p].status = 201 /\ sloc[p].nomem = {}
        /\ now = 0
        /\ sock[f] = "dead" /\ spc[f] = "sse_loop" /\ ~InList(sse_clients, f)
        /\ sock[g] = "open" /\ InList(sse_clients, g)
        /\ sent[g] # <<>>
        /\ sent[g][Len(sent[g])].type = "message"

\* the request is one the claim accepts: three strings, uuid shorter than
\* 37, username shorter than 32, message of 1 to 150 characters
ValidRequest(req) ==
    /\ req.uuid.kind = "string" /\ Len(req.uuid.valuestring) < 37
    /\ req.username.kind = "string" /\ Len(req.username.valuestring) < 32
    /\ req.message.kind = "string"
    /\ Len(req.message.valuestring) > 0 /\ Len(req.message.valuestring) <= 150

\* C7: post_message_handler answers 400 exactly to the requests that are not
\* valid, and then changes nothing but its response; a valid request is
\* stored
C7_RejectedPostChangesNothing ==
    [][\A p \in Posters :
          (spc[p] = "idle" /\ resp'[p] # resp[p])
             => IF ValidRequest(resp'[p].req)
                THEN /\ resp'[p].status = 0
                     /\ spc'[p] = "post_save"
                     /\ Len(posted') = Len(posted) + 1
                ELSE /\ resp'[p].status = 400
                     /\ UNCHANGED <<now, storage_side, nvs, server_storage,
                                    sse_clients, sse_client_count, sock, spc, sloc,
                                    sent, posted>>
      ]_vars

\* a request was answered 400 while a message is stored and a client is in
\* the list
C7_Witness ==
    \E p \in Posters :
        /\ spc[p] = "idle"
        /\ resp[p].status = 400
        /\ ~ValidRequest(resp[p].req)
        /\ posted # <<>>
        /\ sse_clients # <<>>

\* no call of chat_storage_add_message is in progress
AllIdle == \A t \in Tasks : pc[t] = "idle"

\* C11: with concurrent callers of chat_storage_add_message, whenever no call
\* is in progress the number of saves triggered is the number of appends
\* divided by MIN_MESSAGES_TO_SAVE, and new_messages_count holds the rest
C11_ConcurrentBatchesCounted ==
    AllIdle => /\ flushes = Len(appended) \div MIN_MESSAGES_TO_SAVE
               /\ new_messages_count = Len(appended) % MIN_MESSAGES_TO_SAVE

(***************************************************************************)
(* SpecFlush: one task calls chat_storage_add_message and one task serves  *)
(* POST requests; every NVS call of the two save_chat_history functions    *)
(* may fail.  Both write the namespace "chat".                             *)
(***************************************************************************)
\* the NVS calls that may fail in a save: any
AnySaveFailure == (-3)..MAX_MESSAGES

NextFlush ==
    \/ \E u \in Uuids, n \in Usernames, m \in Bodies : AddMessage_Store("t1", u, n, m)
    \/ AddMessage_Invalidate("t1")
    \/ AddMessage_Check("t1")
    \/ \E created \in BOOLEAN : AddMessage_Reset("t1", created)
    \/ AddMessage_Return("t1")
    \/ \E p \in SaveTasks \cup {"t1"} : Save_Copy(p)
    \/ \E p \in SaveTasks \cup {"t1"}, failed \in AnySaveFailure : Save_Write(p, failed)
    \/ \E req \in PostRequests :
          /\ Len(posted) < MaxPosts
          /\ Post_Add(MAX_SSE_CLIENTS + 2, req)
    \/ \E failed \in AnySaveFailure : Post_Save(MAX_SSE_CLIENTS + 2, failed)
    \/ \E committed \in BOOLEAN : Post_Commit(MAX_SSE_CLIENTS + 2, committed)
    \/ Post_Build(MAX_SSE_CLIENTS + 2, 0)
    \/ Post_Notify(MAX_SSE_CLIENTS + 2, {})

SpecFlush == Init /\ [][NextFlush]_vars

\* the committed keys hold the count and the records of this batch
Committed(store, records) ==
    /\ store.committed.count = Len(records)
    /\ Len(store.committed.msgs) >= Len(records)
    /\ \A i \in DOMAIN records : store.committed.msgs[i] = records[i]

\* C12: a save_chat_history that returns an error has committed nothing, and
\* one that returns ESP_OK has written the count and every record of its
\* batch and committed what was written; a save whose count or record write
\* failed does not call nvs_commit; no step of a save changes the messages,
\* the count or next_index in memory
C12_FailedFlushCommitsNothing ==
    [][/\ \A p \in Tasks \cup SaveTasks :
             /\ (pc[p] \in {"save_copy", "save_write"} /\ pc'[p] # pc[p])
                   => chat_storage' = chat_storage
             /\ (pc[p] = "save_write" /\ pc'[p] # pc[p])
                   => IF loc'[p].err = "ESP_OK"
                      THEN Committed(nvs', [i \in DOMAIN loc[p].copy |->
                                               EncodeMessage(loc[p].copy[i])])
                      ELSE nvs'.committed = nvs.committed
       /\ \A p \in Posters :
             (spc[p] \in {"post_save", "post_commit"} /\ spc'[p] # spc[p])
                => /\ server_storage' = server_storage
                   /\ IF sloc'[p].err = "ESP_OK"
                      THEN \/ /\ spc'[p] = "post_commit"
                              /\ nvs'.committed = nvs.committed
                              /\ nvs'.count = server_storage.count
                              /\ \A i \in 1..server_storage.count :
                                    nvs'.msgs[i] = JsonMessage(CopyMessages(server_storage)[i])
                           \/ /\ spc[p] = "post_commit"
                              /\ nvs'.committed = [count |-> nvs.count, msgs |-> nvs.msgs]
                      ELSE /\ spc'[p] = "post_build"
                           /\ nvs'.committed = nvs.committed
      ]_vars

\* C12 witness: a save by chat_storage.c returned an error after it wrote a
\* record that is not committed, while two messages are in the ring
C12_Witness ==
    \E p \in SaveTasks :
        /\ pc[p] = "none"
        /\ loc[p].err = "ESP_FAIL"
        /\ nvs.msgs # nvs.committed.msgs
        /\ chat_storage.count >= 2
        /\ CopyMessages(chat_storage) = LastN(appended, MAX_MESSAGES)

(***************************************************************************)
(* chat_storage.c: chat_storage_init after a restart of the device.        *)
(***************************************************************************)
\* what load_message_from_nvs returns for the key msg_i: failing holds the
\* records nvs_get_str or malloc fails for, and a key that was never written
\* is not found
LoadRecord(store, failing, i) ==
    IF (i + 1) \in failing \/ (i + 1) > Len(store.msgs)
    THEN [ok |-> FALSE, message |-> EmptyMsg]
    ELSE load_message_from_nvs(store.msgs[i + 1])

\* the load loop: record i is loaded into slot i % MAX_MESSAGES, a slot whose
\* record fails to load keeps its zeros, then count = loaded_count and
\* next_index = loaded_count % MAX_MESSAGES.  opened is FALSE when nvs_open
\* fails: nothing is loaded
LoadHistory(store, failing, opened) ==
    LET n == IF opened /\ store.count > 0 THEN Min(store.count, MAX_MESSAGES) ELSE 0
        loaded == {i \in 0..(n - 1) : LoadRecord(store, failing, i).ok}
    IN  [messages |-> [idx \in 0..(MAX_MESSAGES - 1) |->
                          IF idx \in loaded
                          THEN LoadRecord(store, failing, idx).message
                          ELSE EmptyMsg],
         count |-> Cardinality(loaded),
         next_index |-> Cardinality(loaded) % MAX_MESSAGES]

\* the messages chat_storage_init loaded, in the order of their keys
LoadedMessages(store, failing, opened) ==
    LET n == IF opened /\ store.count > 0 THEN Min(store.count, MAX_MESSAGES) ELSE 0
        results == [i \in 1..n |-> LoadRecord(store, failing, i - 1)]
        good == SelectSeq(results, LAMBDA r : r.ok)
    IN  [i \in DOMAIN good |-> good[i].message]

\* the device restarts: the statics have their initial values, the tasks are
\* gone, what was set in NVS without nvs_commit is lost, and chat_storage_init
\* loads the history.  The history appended restarts with the loaded
\* messages, the history flushes with 0
chat_storage_init(failing, opened) ==
    LET store == nvs.committed
        loaded == LoadedMessages(store, failing, opened)
        error == IF ~opened THEN "Error opening NVS handle"
                 ELSE IF store.count > 0 /\ Len(loaded) < Min(store.count, MAX_MESSAGES)
                 THEN "Failed to load message"
                 ELSE ""
    IN  /\ chat_storage' = LoadHistory(store, failing, opened)
        /\ appended' = loaded
        /\ nvs' = [nvs EXCEPT !.count = store.count, !.msgs = store.msgs]
        /\ ret' = [t \in Tasks |-> Ret("init", "ESP_OK", NULL, FALSE, FALSE, error)]
    /\ cached_full_messages_json' = NULL
    /\ cached_full_messages_timestamp' = 0
    /\ cache_valid' = FALSE
    /\ new_messages_count' = 0
    /\ pc' = [p \in Tasks \cup SaveTasks |-> IF p \in Tasks THEN "idle" ELSE "none"]
    /\ loc' = [p \in Tasks \cup SaveTasks |-> NoLoc]
    /\ flushes' = 0
    /\ UNCHANGED now
    /\ UNCHANGED server_vars

(***************************************************************************)
(* chat_storage.c: chat_storage_deinit, called by task t.                  *)
(***************************************************************************)
\* if (new_messages_count > 0) save_chat_history(), synchronously
Deinit_Check(t) ==
    /\ pc[t] = "idle"
    /\ IF new_messages_count > 0
       THEN /\ pc' = [pc EXCEPT ![t] = "save_copy"]
            /\ loc' = [loc EXCEPT ![t].back = "deinit_reset"]
            /\ flushes' = flushes + 1
       ELSE /\ pc' = [pc EXCEPT ![t] = "deinit_free"]
            /\ UNCHANGED <<loc, flushes>>
    /\ Call(t)
    /\ UNCHANGED <<now, storage_vars, nvs, appended>>
    /\ UNCHANGED server_vars

\* after the save: new_messages_count = 0
Deinit_Reset(t) ==
    /\ pc[t] = "deinit_reset"
    /\ new_messages_count' = 0
    /\ pc' = [pc EXCEPT ![t] = "deinit_free"]
    /\ UNCHANGED <<now, chat_storage, cached_full_messages_json,
                   cached_full_messages_timestamp, cache_valid, loc, ret, nvs,
                   appended, flushes>>
    /\ UNCHANGED server_vars

\* invalidate_cache(), vSemaphoreDelete(chat_mutex): the storage is stopped
\* until the device restarts
Deinit_Free(t) ==
    /\ pc[t] = "deinit_free"
    /\ invalidate_cache
    /\ pc' = [pc EXCEPT ![t] = "stopped"]
    /\ Return(t, Ret("deinit", "ESP_OK", NULL, FALSE, FALSE, ""))
    /\ UNCHANGED <<now, chat_storage, new_messages_count, loc, nvs, appended, flushes>>
    /\ UNCHANGED server_vars

(***************************************************************************)
(* SpecRestore: one caller of chat_storage.c, whose messages may hold a    *)
(* '|', and who calls chat_storage_deinit, the save tasks, and restarts of  *)
(* the device between the calls.  The clock stops at MaxSseTime.           *)
(***************************************************************************)
\* at most MaxRestoreAppends messages are in the history appended
MaxRestoreAppends == 3

\* message texts with the delimiter of the NVS record in them
PipeBodies == {Ptr(<<"m", Digit(Len(appended) + 1), "|", "x">>)}

\* the records that fail to load in a restart: none, the first, the second
LoadFailures == {{}, {1}, {2}}

NextRestore ==
    \/ \E u \in Uuids, n \in Usernames, m \in Bodies \cup PipeBodies :
          /\ Len(appended) < MaxRestoreAppends
          /\ AddMessage_Store("t1", u, n, m)
    \/ AddMessage_Invalidate("t1")
    \/ AddMessage_Check("t1")
    \/ \E created \in BOOLEAN : AddMessage_Reset("t1", created)
    \/ AddMessage_Return("t1")
    \/ \E p \in SaveTasks \cup {"t1"} : Save_Copy(p)
    \/ \E p \in SaveTasks \cup {"t1"}, failed \in {0, 1} : Save_Write(p, failed)
    \/ GetSince_Copy("t1", 0, TRUE)
    \/ GetSince_Filter("t1")
    \/ Deinit_Check("t1")
    \/ Deinit_Reset("t1")
    \/ Deinit_Free("t1")
    \/ \E failing \in LoadFailures, opened \in BOOLEAN :
          /\ \A p \in Tasks \cup SaveTasks : pc[p] \in {"idle", "none", "stopped"}
          /\ chat_storage_init(failing, opened)
    \/ SseTick

SpecRestore == Init /\ [][NextRestore]_vars

\* C13: after a restart in which every record was loaded, the messages read
\* from the ring are the messages of the last save that succeeded, field by
\* field and in the same order
C13_RestoredEqualsFlushed ==
    (/\ Idle
     /\ ret["t1"].op = "init" /\ ret["t1"].error = "")
       => CopyMessages(chat_storage) = nvs.saved


\* C14: after a restart, also one in which records failed to load, and after
\* any appends that follow it, count is the number of messages loaded and
\* appended (MAX_MESSAGES at most) and the messages read from the ring are
\* the last of them, in the order of their keys and of their appends
C14_PartialLoadKeepsLoaded ==
    /\ chat_storage.count = Min(Len(appended), MAX_MESSAGES)
    /\ CopyMessages(chat_storage) = LastN(appended, MAX_MESSAGES)


\* C15: when chat_storage_deinit has returned with messages in the ring and
\* no save of it failed, the committed keys hold the count and the records of
\* the messages in the ring
C15_DeinitFlushesLog ==
    \A t \in Tasks :
        (pc[t] = "stopped" /\ chat_storage.count > 0 /\ loc[t].err = "ESP_OK")
           => Committed(nvs, [i \in 1..chat_storage.count |->
                                 EncodeMessage(CopyMessages(chat_storage)[i])])


\* C18: a call of chat_storage_get_messages_since_json with since_timestamp 0
\* that does not answer with an error returns every message in the ring, in
\* the order chat_storage_get_messages_json returns them
C18_SinceZeroIsAll ==
    (/\ Idle
     /\ ret["t1"].op = "get_since" /\ ret["t1"].since = 0 /\ ret["t1"].error = "")
       => ret["t1"].json.json = CopyMessages(chat_storage)


\* C16: once add_chat_message has stored the message, no step of
\* post_message_handler changes the ring, a failed save or send changes no
\* response, the only 500 answers are those for a JSON object that could
\* not be allocated, and notify_sse_clients is followed by 201
C16_PostSucceedsDespiteFailures ==
    [][\A p \in Posters :
          /\ (spc[p] \in {"post_save", "post_commit", "post_build", "post_notify"}
              /\ spc'[p] # spc[p])
                => /\ server_storage' = server_storage
                   /\ posted' = posted
                   /\ posted[Len(posted)] \in Range(CopyMessages(server_storage'))
          /\ (spc[p] \in {"post_save", "post_commit"} /\ spc'[p] # spc[p])
                => /\ resp'[p] = resp[p]
                   /\ spc'[p] \in {"post_commit", "post_build"}
          /\ (spc[p] = "post_build" /\ spc'[p] # spc[p])
                => \/ spc'[p] = "post_notify" /\ resp'[p] = resp[p]
                   \/ /\ resp'[p].status = 500
                      /\ resp'[p].text \in {"Failed to create JSON",
                                            "Failed to create JSON message"}
          /\ (spc[p] = "post_notify" /\ spc'[p] # spc[p])
                => resp'[p].status = 201
      ]_vars

\* C16 witness: 201 was answered at time 0 although nothing was ever
\* committed to NVS and the only client was unlinked because the send to its
\* dead socket failed; the message is in the ring
C16_Witness ==
    \E p \in Posters :
        /\ spc[p] = "idle" /\ resp[p].status = 201
        /\ now = 0
        /\ nvs.committed.count = 0
        /\ sock[1] = "dead" /\ spc[1] = "sse_loop" /\ ~InList(sse_clients, 1)
        /\ posted # <<>>
        /\ posted[Len(posted)] \in Range(CopyMessages(server_storage))


C20_RemoveAbsentChangesNothing ==
    [][\A f \in Fds :
          (\/ spc[f] = "sse_remove" /\ spc'[f] = "done"
           \/ spc[f] = "done" /\ spc'[f] = "closed")
             => IF \E i \in DOMAIN sse_clients : sse_clients[i].fd = f
                THEN /\ sse_clients' = SelectSeq(sse_clients, LAMBDA client : client.fd # f)
                     /\ Len(sse_clients') = Len(sse_clients) - 1
                     /\ sse_client_count' = sse_client_count - 1
                ELSE UNCHANGED <<sse_clients, sse_client_count>>
      ]_vars

\* C20 witness: a client that cleanup_sse_clients had unlinked (it was sent
\* "event: close") went through remove_sse_client on its handler's way out,
\* while another client is in the list
C20_Witness ==
    \E f \in Fds :
        /\ spc[f] = "done" /\ resp[f].status = 0
        /\ \E i \in DOMAIN sent[f] : sent[f][i] = Event("close", <<>>)
        /\ sse_clients # <<>>
        /\ sse_client_count = Len(sse_clients)


\* the client with socket g is in the list and cleanup_sse_clients, having
\* read current_time, finds it inactive for more than InactiveSeconds
Stale(list, g, current_time) ==
    \E i \in DOMAIN list :
        /\ list[i].fd = g
        /\ current_time - list[i].last_activity > InactiveSeconds

\* C21: cleanup_sse_clients unlinks exactly the clients whose last_activity
\* is more than InactiveSeconds before the time it read, sends "event: close"
\* to each of them, unlinks them whether or not that send succeeds, and
\* leaves every other client in the list, in its place and with its
\* last_activity
C21_SweepRemovesExactlyStale ==
    [][\A f \in Fds :
          (spc[f] \in {"sse_sweep", "sse_loop_sweep"} /\ spc'[f] # spc[f])
             => /\ sse_clients' =
                       SelectSeq(sse_clients,
                                 LAMBDA client :
                                     ~Stale(sse_clients, client.fd, sloc[f].time))
                /\ \A g \in Fds :
                      sent'[g] = IF Stale(sse_clients, g, sloc[f].time) /\ sock[g] = "open"
                                 THEN Append(sent[g], Event("close", <<>>))
                                 ELSE sent[g]
      ]_vars

\* C22: a client whose handler has just sent it "event: ping" is still in the
\* list after the cleanup_sse_clients call that follows the ping
C22_PingedClientNotEvicted ==
    [][\A f \in Fds :
          (/\ spc[f] = "sse_loop_sweep" /\ spc'[f] = "sse_loop"
           /\ sloc[f].time = now
           /\ sent[f] # <<>> /\ sent[f][Len(sent[f])] = Event("ping", <<>>)
           /\ InList(sse_clients, f))
             => InList(sse_clients', f)
      ]_vars

\* C23: the handler of a client that is no longer in the list sends no
\* further "event: ping" on its socket
C23_NoPingAfterEviction ==
    [][\A f \in Fds :
          (spc[f] = "sse_loop" /\ ~InList(sse_clients, f) /\ sent'[f] # sent[f])
             => sent'[f][Len(sent'[f])].type \notin {"ping", "message"}
      ]_vars


(***************************************************************************)
(* SpecLifetime: two stream connections and a clock that runs to MaxTime,  *)
(* past max_connection_time.  Allocations succeed.  The task of a handler  *)
(* is scheduled: vTaskDelay returns and the loop iteration runs, and a     *)
(* handler that left its loop goes on to remove_sse_client.                *)
(***************************************************************************)
Streams == 1..2

NextLifetime ==
    \/ \E f \in Streams : SseStep(f, {TRUE})
    \/ Tick

SpecLifetime ==
    /\ Init
    /\ [][NextLifetime]_vars
    /\ \A f \in Streams : WF_vars(Sse_Loop(f)) /\ WF_vars(Sse_Remove(f))

\* the loop of the handler on socket f runs an iteration
LoopIteration(f) ==
    /\ spc[f] = "sse_loop"
    /\ spc'[f] # spc[f] \/ sloc'[f] # sloc[f]

\* C24: a loop iteration on an open socket more than max_connection_time
\* after start_time sends "event: close" with the reason timeout and leaves
\* the loop, and no earlier iteration on an open socket leaves it; on leaving
\* the loop the handler unlinks its client and returns; and a handler in its
\* loop more than max_connection_time after start_time does return
C24_LifetimeEndsStream ==
    /\ [][\A f \in Streams :
             /\ (LoopIteration(f) /\ sock[f] = "open")
                   => IF now - sloc[f].start_time > max_connection_time
                      THEN /\ sent'[f] = Append(sent[f], Event("close", <<"timeout">>))
                           /\ spc'[f] = "sse_remove"
                      ELSE spc'[f] \in {"sse_loop", "sse_loop_sweep"}
             /\ (spc[f] = "sse_remove" /\ spc'[f] # spc[f])
                   => /\ spc'[f] = "done"
                      /\ ~InList(sse_clients', f)
                      /\ sent'[f] = sent[f]
         ]_vars
    /\ \A f \in Streams :
          (spc[f] = "sse_loop" /\ now - sloc[f].start_time > max_connection_time)
             ~> (spc[f] = "done")

\* C24 witness: a handler has returned after it sent the timeout close event
\* on its open socket as the last event, and its client is not in the list
C24_Witness ==
    \E f \in Streams :
        /\ spc[f] = "done"
        /\ sock[f] = "open"
        /\ sent[f] # <<>>
        /\ sent[f][Len(sent[f])] = Event("close", <<"timeout">>)
        /\ \E i \in DOMAIN sent[f] : sent[f][i].type = "messages"
        /\ ~InList(sse_clients, f)
        /\ now > max_connection_time


\* C25: no task that called chat_storage_add_message runs save_chat_history
\* itself, and no task that serves a POST request writes or commits NVS keys
C25_PostNeverSavesItself ==
    /\ \A t \in Tasks :
          pc[t] \in {"save_copy", "save_write"} => loc[t].back # "add_return"
    /\ \A p \in Posters : spc[p] \notin {"post_save", "post_commit"}


\* C26: in every state count is in 0..MAX_MESSAGES and next_index in
\* 0..MAX_MESSAGES-1; while the ring is not full next_index = count and the
\* slots 0..count-1 hold the loaded and appended messages in their order;
\* when it is full the slot at next_index holds the oldest message kept
C26_RingShape ==
    /\ chat_storage.count \in 0..MAX_MESSAGES
    /\ chat_storage.next_index \in 0..(MAX_MESSAGES - 1)
    /\ chat_storage.count < MAX_MESSAGES
          => /\ chat_storage.next_index = chat_storage.count
             /\ [i \in 1..chat_storage.count |-> chat_storage.messages[i - 1]]
                    = appended
    /\ chat_storage.count = MAX_MESSAGES
          => chat_storage.messages[chat_storage.next_index]
                 = LastN(appended, MAX_MESSAGES)[1]


\* the messages appended before the clock passed time t, and those appended
\* until it passed t
AppendedBefore(t) == Len(SelectSeq(appended, LAMBDA m : m.timestamp < t))
AppendedUntil(t) == Len(SelectSeq(appended, LAMBDA m : m.timestamp <= t))

\* C27: whenever cache_valid is set, the cached array holds the messages the
\* ring held at some moment at which the clock read
\* cached_full_messages_timestamp
C27_ValidCacheIsLogAtTimestamp ==
    (cache_valid /\ ~cached_full_messages_json.null)
       => \E k \in AppendedBefore(cached_full_messages_timestamp)
                     ..AppendedUntil(cached_full_messages_timestamp) :
             cached_full_messages_json.json
                 = LastN(SubSeq(appended, 1, k), MAX_MESSAGES)


\* C28: a task that serves a POST request writes and commits the NVS keys
\* for its message only after it has notified the clients of that message
\* (201 is answered right after notify_sse_clients)
C28_SaveAfterNotify ==
    [][\A p \in Posters :
          (spc[p] \in {"post_save", "post_commit"} /\ spc'[p] # spc[p])
             => resp[p].status = 201
      ]_vars


(***************************************************************************)
(* chat_storage.c: the NVS calls of save_chat_history one by one, for two  *)
(* saves that run at the same time.  Every call succeeds.                  *)
(***************************************************************************)
\* the keys after nvs_set_str of the key msg_(i-1)
SetRecord(msgs, i, record) ==
    [k \in 1..(IF Len(msgs) > i THEN Len(msgs) ELSE i) |->
        IF k = i THEN record ELSE msgs[k]]

\* nvs_open and nvs_set_i32(count)
Save_SetCount(p) ==
    /\ pc[p] = "save_write"
    /\ nvs' = [nvs EXCEPT !.count = Len(loc[p].copy)]
    /\ loc' = [loc EXCEPT ![p].i = 0]
    /\ pc' = [pc EXCEPT ![p] = "save_records"]
    /\ UNCHANGED <<now, storage_vars, ret, appended, flushes>>
    /\ UNCHANGED server_vars

\* one iteration of the record loop: save_message_to_nvs(nvs_handle, i, ...)
Save_SetRecord(p) ==
    /\ pc[p] = "save_records"
    /\ loc[p].i < Len(loc[p].copy)
    /\ nvs' = [nvs EXCEPT !.msgs = SetRecord(@, loc[p].i + 1,
                                             EncodeMessage(loc[p].copy[loc[p].i + 1]))]
    /\ loc' = [loc EXCEPT ![p].i = @ + 1]
    /\ UNCHANGED <<now, storage_vars, pc, ret, appended, flushes>>
    /\ UNCHANGED server_vars

\* after the loop: nvs_commit, nvs_close, return ESP_OK
Save_Commit(p) ==
    /\ pc[p] = "save_records"
    /\ loc[p].i = Len(loc[p].copy)
    /\ nvs' = [nvs EXCEPT !.committed = [count |-> nvs.count, msgs |-> nvs.msgs],
                          !.saved = loc[p].copy]
    /\ loc' = [loc EXCEPT ![p].copy = <<>>, ![p].i = 0, ![p].err = "ESP_OK"]
    /\ pc' = [pc EXCEPT ![p] = SaveDone(p)]
    /\ UNCHANGED <<now, storage_vars, ret, appended, flushes>>
    /\ UNCHANGED server_vars

(***************************************************************************)
(* SpecOverlap: one caller of chat_storage_add_message and of              *)
(* chat_storage_deinit, and the save task; xTaskCreate may fail.           *)
(***************************************************************************)
NextOverlap ==
    \/ \E u \in Uuids, n \in Usernames, m \in Bodies : AddMessage_Store("t1", u, n, m)
    \/ AddMessage_Invalidate("t1")
    \/ AddMessage_Check("t1")
    \/ \E created \in BOOLEAN : AddMessage_Reset("t1", created)
    \/ AddMessage_Return("t1")
    \/ Deinit_Check("t1")
    \/ Deinit_Reset("t1")
    \/ Deinit_Free("t1")
    \/ \E p \in SaveTasks \cup {"t1"} : Save_Copy(p)
    \/ \E p \in SaveTasks \cup {"t1"} : Save_SetCount(p)
    \/ \E p \in SaveTasks \cup {"t1"} : Save_SetRecord(p)
    \/ \E p \in SaveTasks \cup {"t1"} : Save_Commit(p)

SpecOverlap == Init /\ [][NextOverlap]_vars

\* the tasks whose save_chat_history has copied the ring and has not yet
\* returned from its NVS calls
Saving == {p \in Tasks \cup SaveTasks : pc[p] \in {"save_write", "save_records"}}

\* C29: at most one save_chat_history is between its copy of the ring and
\* the end of its NVS calls
C29_OneFlushInFlight == Cardinality(Saving) <= 1

\* C30: a save_chat_history copies the ring in one critical section, writes
\* the number of messages copied as the count, and when its nvs_commit has
\* succeeded the committed keys hold that count and the records of the
\* messages it copied, oldest first
C30_CommittedIsOneSnapshot ==
    [][\A p \in Tasks \cup SaveTasks :
          /\ (pc[p] = "save_copy" /\ pc'[p] # pc[p])
                => loc'[p].copy = LastN(appended, MAX_MESSAGES)
          /\ (pc[p] = "save_write" /\ pc'[p] # pc[p])
                => nvs'.count = Len(loc[p].copy)
          /\ (pc[p] = "save_records" /\ pc'[p] # pc[p])
                => Committed(nvs', [i \in DOMAIN loc[p].copy |->
                                       EncodeMessage(loc[p].copy[i])])
      ]_vars


(***************************************************************************)
(* The mutexes.  In the actions below xSemaphoreTake and xSemaphoreGive    *)
(* are steps of their own, so that what a task does between them is done   *)
(* in states in which it holds the mutex.                                  *)
(***************************************************************************)
\* mutant: xSemaphoreGive leaves the mutex with its holder
xSemaphoreGive_Kept(mutex, h) == mutex

\* the mutex after its holder h gave it
xSemaphoreGive(mutex, h) == mutex \ {h}

\* the mutex after h took it; h waits until it is free
xSemaphoreTake(mutex, h) == mutex \cup {h}

(***************************************************************************)
(* chat_server.c: get_chat_messages_json, called by sse_handler.           *)
(***************************************************************************)
\* messages_json == NULL: nothing is sent and the loop starts
Snapshot_Null(f) ==
    /\ sloc' = [sloc EXCEPT ![f].start_time = now, ![f].woke = now]
    /\ spc' = [spc EXCEPT ![f] = "sse_loop"]

\* cJSON_CreateArray (NULL is returned when created is FALSE), then
\* xSemaphoreTake(chat_mutex)
Snapshot_Take(f, created) ==
    /\ spc[f] = "sse_snapshot"
    /\ IF created
       THEN /\ server_mutex = {}
            /\ server_mutex' = xSemaphoreTake(server_mutex, f)
            /\ spc' = [spc EXCEPT ![f] = "snapshot_build"]
            /\ UNCHANGED sloc
       ELSE /\ Snapshot_Null(f)
            /\ UNCHANGED server_mutex
    /\ UNCHANGED <<now, chat_storage, cached_full_messages_json,
                   cached_full_messages_timestamp, cache_valid, new_messages_count,
                   pc, loc, ret, appended, flushes, chat_mutex, sse_mutex, nvs,
                   server_storage, sse_clients, sse_client_count, sock, resp, sent,
                   posted>>

\* the loop that builds a JSON object for each message of the ring, with
\* chat_mutex held.  When cJSON_CreateObject fails (created is FALSE, with a
\* message in the ring) the mutex is given and NULL is returned
Snapshot_Build(f, created) ==
    /\ spc[f] = "snapshot_build"
    /\ IF created \/ server_storage.count = 0
       THEN /\ sloc' = [sloc EXCEPT ![f].json = Ptr(CopyMessages(server_storage))]
            /\ spc' = [spc EXCEPT ![f] = "snapshot_give"]
            /\ UNCHANGED server_mutex
       ELSE /\ server_mutex' = xSemaphoreGive(server_mutex, f)
            /\ Snapshot_Null(f)
    /\ UNCHANGED <<now, chat_storage, cached_full_messages_json,
                   cached_full_messages_timestamp, cache_valid, new_messages_count,
                   pc, loc, ret, appended, flushes, chat_mutex, sse_mutex, nvs,
                   server_storage, sse_clients, sse_client_count, sock, resp, sent,
                   posted>>

\* xSemaphoreGive(chat_mutex), then cJSON_PrintUnformatted, which returns
\* NULL when printed is FALSE
Snapshot_Give(f, printed) ==
    /\ spc[f] = "snapshot_give"
    /\ server_mutex' = xSemaphoreGive(server_mutex, f)
    /\ IF printed
       THEN /\ spc' = [spc EXCEPT ![f] = "sse_send"]
            /\ UNCHANGED sloc
       ELSE /\ sloc' = [sloc EXCEPT ![f].json = NULL, ![f].start_time = now,
                                    ![f].woke = now]
            /\ spc' = [spc EXCEPT ![f] = "sse_loop"]
    /\ UNCHANGED <<now, chat_storage, cached_full_messages_json,
                   cached_full_messages_timestamp, cache_valid, new_messages_count,
                   pc, loc, ret, appended, flushes, chat_mutex, sse_mutex, nvs,
                   server_storage, sse_clients, sse_client_count, sock, resp, sent,
                   posted>>

(***************************************************************************)
(* chat_server.c: save_chat_history, called by add_chat_message.           *)
(***************************************************************************)
\* nvs_open (err is returned when opened is FALSE), then
\* xSemaphoreTake(chat_mutex)
PostSave_Take(p, opened) ==
    /\ spc[p] = "post_save"
    /\ IF opened
       THEN /\ server_mutex = {}
            /\ server_mutex' = xSemaphoreTake(server_mutex, p)
            /\ spc' = [spc EXCEPT ![p] = "post_save_write"]
            /\ UNCHANGED sloc
       ELSE /\ spc' = [spc EXCEPT ![p] = "post_build"]
            /\ sloc' = [sloc EXCEPT ![p].err = "ESP_FAIL"]
            /\ UNCHANGED server_mutex
    /\ UNCHANGED <<now, chat_storage, cached_full_messages_json,
                   cached_full_messages_timestamp, cache_valid, new_messages_count,
                   pc, loc, ret, appended, flushes, chat_mutex, sse_mutex, nvs,
                   server_storage, sse_clients, sse_client_count, sock, resp, sent,
                   posted>>

\* nvs_set_i32(count) and save_message_to_nvs for each message, with
\* chat_mutex held.  failed says which call fails: 0 none, -2 the count write,
\* after which the mutex is given and err is returned, i >= 1 the write of
\* record i, which ends the loop
PostSave_Write(p, failed) ==
    /\ spc[p] = "post_save_write"
    /\ LET copy == CopyMessages(server_storage)
           n == Len(copy)
           written == IF failed = 0 THEN n ELSE IF failed < 0 THEN 0 ELSE failed - 1
       IN  /\ failed \in {-2} \cup 0..n
           /\ nvs' = [nvs EXCEPT !.count = IF failed < 0 THEN @ ELSE n,
                                 !.msgs = WriteJsonRecords(@, copy, written)]
    /\ sloc' = [sloc EXCEPT ![p].err = IF failed = 0 THEN "ESP_OK" ELSE "ESP_FAIL"]
    /\ IF failed = -2
       THEN /\ server_mutex' = xSemaphoreGive(server_mutex, p)
            /\ spc' = [spc EXCEPT ![p] = "post_build"]
       ELSE /\ spc' = [spc EXCEPT ![p] = "post_save_give"]
            /\ UNCHANGED server_mutex
    /\ UNCHANGED <<now, chat_storage, cached_full_messages_json,
                   cached_full_messages_timestamp, cache_valid, new_messages_count,
                   pc, loc, ret, appended, flushes, chat_mutex, sse_mutex,
                   server_storage, sse_clients, sse_client_count, sock, resp, sent,
                   posted>>

\* xSemaphoreGive(chat_mutex) after the loop; nvs_commit follows unless a
\* record failed to be written
PostSave_Give(p) ==
    /\ spc[p] = "post_save_give"
    /\ server_mutex' = xSemaphoreGive(server_mutex, p)
    /\ spc' = [spc EXCEPT ![p] = IF sloc[p].err = "ESP_OK" THEN "post_commit"
                                 ELSE "post_build"]
    /\ UNCHANGED <<now, chat_storage, cached_full_messages_json,
                   cached_full_messages_timestamp, cache_valid, new_messages_count,
                   pc, loc, ret, appended, flushes, chat_mutex, sse_mutex, nvs,
                   server_storage, sse_clients, sse_client_count, sock, sloc, resp,
                   sent, posted>>

(***************************************************************************)
(* chat_server.c: notify_sse_clients, called by post_message_handler.      *)
(***************************************************************************)
\* xSemaphoreTake(sse_mutex)
Notify_Take(p) ==
    /\ spc[p] = "post_notify"
    /\ sse_mutex = {}
    /\ sse_mutex' = xSemaphoreTake(sse_mutex, p)
    /\ spc' = [spc EXCEPT ![p] = "notify_loop"]
    /\ UNCHANGED <<now, chat_storage, cached_full_messages_json,
                   cached_full_messages_timestamp, cache_valid, new_messages_count,
                   pc, loc, ret, appended, flushes, chat_mutex, server_mutex, nvs,
                   server_storage, sse_clients, sse_client_count, sock, sloc, resp,
                   sent, posted>>

\* the loop over the list with sse_mutex held: asprintf and
\* httpd_socket_send for each client.  nomem holds the clients asprintf
\* fails for
Notify_Loop(p, nomem) ==
    /\ spc[p] = "notify_loop"
    /\ LET r == NotifyLoop(sse_clients, sent, sloc[p].event[1], nomem, sloc[p].time)
       IN  /\ sse_clients' = r.clients
           /\ sent' = r.sent
           /\ sse_client_count' = sse_client_count - (Len(sse_clients) - Len(r.clients))
    /\ sloc' = [sloc EXCEPT ![p] = [NoSloc EXCEPT !.nomem = nomem]]
    /\ spc' = [spc EXCEPT ![p] = "notify_give"]
    /\ UNCHANGED <<now, chat_storage, cached_full_messages_json,
                   cached_full_messages_timestamp, cache_valid, new_messages_count,
                   pc, loc, ret, appended, flushes, chat_mutex, server_mutex,
                   sse_mutex, nvs, server_storage, sock, resp, posted>>

\* xSemaphoreGive(sse_mutex); notify_sse_clients returns and 201 is answered
Notify_Give(p) ==
    /\ spc[p] = "notify_give"
    /\ sse_mutex' = xSemaphoreGive(sse_mutex, p)
    /\ resp' = [resp EXCEPT ![p].status = 201, ![p].text = "{\"status\":\"success\"}"]
    /\ spc' = [spc EXCEPT ![p] = "idle"]
    /\ UNCHANGED <<now, chat_storage, cached_full_messages_json,
                   cached_full_messages_timestamp, cache_valid, new_messages_count,
                   pc, loc, ret, appended, flushes, chat_mutex, server_mutex, nvs,
                   server_storage, sse_clients, sse_client_count, sock, sloc, sent,
                   posted>>


(***************************************************************************)
(* chat_storage.c: the critical sections of chat_storage_get_messages_json *)
(* and chat_storage_get_messages_since_json.                               *)
(***************************************************************************)
\* the size of stack_messages (16 in the code): a longer history is copied to
\* memory from malloc
StackMessages == 1

\* xSemaphoreTake(chat_mutex, portMAX_DELAY), after the cache test failed
GetJson_Take(t) ==
    /\ pc[t] = "json_copy"
    /\ chat_mutex = {}
    /\ chat_mutex' = xSemaphoreTake(chat_mutex, t)
    /\ pc' = [pc EXCEPT ![t] = "json_locked"]
    /\ UNCHANGED <<now, storage_vars, loc, ret, nvs, appended, flushes, server_mutex,
                   sse_mutex, server_storage, sse_clients, sse_client_count, sock, spc,
                   sloc, resp, sent, posted>>

\* with chat_mutex held: malloc when count > 16, and when it fails
\* (allocated is FALSE) the mutex is given and NULL is returned; else the
\* messages are copied
GetJson_Locked(t, allocated) ==
    /\ pc[t] = "json_locked"
    /\ IF chat_storage.count > StackMessages /\ ~allocated
       THEN /\ chat_mutex' = xSemaphoreGive(chat_mutex, t)
            /\ Return(t, Ret("get_all", "ESP_OK", NULL, FALSE, FALSE, ""))
            /\ pc' = [pc EXCEPT ![t] = "idle"]
            /\ loc' = [loc EXCEPT ![t].time = 0]
       ELSE /\ loc' = [loc EXCEPT ![t].copy = CopyMessages(chat_storage)]
            /\ pc' = [pc EXCEPT ![t] = "json_give"]
            /\ UNCHANGED <<chat_mutex, ret>>
    /\ UNCHANGED <<now, storage_vars, nvs, appended, flushes, server_mutex,
                   sse_mutex, server_storage, sse_clients, sse_client_count, sock, spc,
                   sloc, resp, sent, posted>>

\* xSemaphoreGive(chat_mutex) after the copy
GetJson_Give(t) ==
    /\ pc[t] = "json_give"
    /\ chat_mutex' = xSemaphoreGive(chat_mutex, t)
    /\ pc' = [pc EXCEPT ![t] = "json_store"]
    /\ UNCHANGED <<now, storage_vars, loc, ret, nvs, appended, flushes, server_mutex,
                   sse_mutex, server_storage, sse_clients, sse_client_count, sock, spc,
                   sloc, resp, sent, posted>>

\* xSemaphoreTake(chat_mutex, pdMS_TO_TICKS(1000)): the mutex is taken when
\* it is free, and while another task holds it the call may time out (taken
\* is FALSE): then the error object is returned
GetSince_Take(t, since_timestamp, taken) ==
    /\ pc[t] = "idle"
    /\ IF taken
       THEN /\ chat_mutex = {}
            /\ chat_mutex' = xSemaphoreTake(chat_mutex, t)
            /\ pc' = [pc EXCEPT ![t] = "since_locked"]
            /\ loc' = [loc EXCEPT ![t].since = since_timestamp]
            /\ Call(t)
       ELSE /\ chat_mutex # {}
            /\ CallReturn(t, [Ret("get_since", "ESP_OK", Ptr(<<>>), FALSE, FALSE,
                                   "Server busy, try again later")
                                  EXCEPT !.since = since_timestamp])
            /\ UNCHANGED <<chat_mutex, pc, loc>>
    /\ UNCHANGED <<now, storage_vars, nvs, appended, flushes, server_mutex,
                   sse_mutex, server_storage, sse_clients, sse_client_count, sock, spc,
                   sloc, resp, sent, posted>>

\* with chat_mutex held: malloc when count > 0, and when it fails (copied is
\* FALSE) the mutex is given and the error object is returned; else the
\* messages are copied
GetSince_Locked(t, copied) ==
    /\ pc[t] = "since_locked"
    /\ IF chat_storage.count > 0 /\ ~copied
       THEN /\ chat_mutex' = xSemaphoreGive(chat_mutex, t)
            /\ Return(t, [Ret("get_since", "ESP_OK", Ptr(<<>>), FALSE, FALSE,
                              "Server out of memory")
                             EXCEPT !.since = loc[t].since])
            /\ pc' = [pc EXCEPT ![t] = "idle"]
            /\ loc' = [loc EXCEPT ![t].since = 0]
       ELSE /\ loc' = [loc EXCEPT ![t].copy = CopyMessages(chat_storage)]
            /\ pc' = [pc EXCEPT ![t] = "since_give"]
            /\ UNCHANGED <<chat_mutex, ret>>
    /\ UNCHANGED <<now, storage_vars, nvs, appended, flushes, server_mutex,
                   sse_mutex, server_storage, sse_clients, sse_client_count, sock, spc,
                   sloc, resp, sent, posted>>

\* xSemaphoreGive(chat_mutex) after the copy
GetSince_Give(t) ==
    /\ pc[t] = "since_give"
    /\ chat_mutex' = xSemaphoreGive(chat_mutex, t)
    /\ pc' = [pc EXCEPT ![t] = "since_filter"]
    /\ UNCHANGED <<now, storage_vars, loc, ret, nvs, appended, flushes, server_mutex,
                   sse_mutex, server_storage, sse_clients, sse_client_count, sock, spc,
                   sloc, resp, sent, posted>>


(***************************************************************************)
(* SpecLocks: the calls with xSemaphoreTake and xSemaphoreGive as steps.   *)
(* esp_rest_main.c calls chat_server_init only, and nothing calls both     *)
(* files: either the handlers of chat_server.c run (one stream connection  *)
(* and one posting task, whose saves may fail), or two tasks call         *)
(* chat_storage.c: a call into one file starts while the other is unused.  *)
(* A critical section that stays one step runs when its mutex is free.     *)
(***************************************************************************)
\* chat_storage.c was not called
StorageUnused ==
    /\ appended = <<>>
    /\ \A t \in Tasks : pc[t] = "idle" /\ ret[t].op = "none"

\* no request is being served or was answered by chat_server.c
ServerUnused ==
    /\ posted = <<>>
    /\ \A f \in Fds : spc[f] = "closed"
    /\ \A p \in Posters : spc[p] = "idle" /\ resp[p] = NoResp

\* one step of sse_handler for the connection on socket f
LockedSseStep(f) ==
    \/ StorageUnused /\ Sse_Open(f)
    \/ sse_mutex = {} /\ Sse_Sweep(f)
    \/ sse_mutex = {} /\ Sse_Add(f, TRUE)
    \/ sse_mutex = {} /\ Sse_Check(f)
    \/ \E created \in BOOLEAN : Snapshot_Take(f, created)
    \/ \E created \in BOOLEAN : Snapshot_Build(f, created)
    \/ \E printed \in BOOLEAN : Snapshot_Give(f, printed)
    \/ Sse_Send(f, TRUE)
    \/ Sse_Loop(f)
    \/ sse_mutex = {} /\ Sse_Remove(f)
    \/ sse_mutex = {} /\ Disconnect(f)
    \/ Drop(f)

\* one step of post_message_handler run by task p
LockedPostStep(p) ==
    \/ \E req \in PostRequests :
          /\ StorageUnused
          /\ Len(posted) < MaxPosts
          /\ server_mutex = {}
          /\ Post_Add(p, req)
    \/ \E opened \in BOOLEAN : PostSave_Take(p, opened)
    \/ \E failed \in (-2)..MAX_MESSAGES : PostSave_Write(p, failed)
    \/ PostSave_Give(p)
    \/ Post_Commit(p, TRUE)
    \/ Post_Build(p, 0)
    \/ Notify_Take(p)
    \/ Notify_Loop(p, {})
    \/ Notify_Give(p)

\* one step of a call into chat_storage.c made by task t
LockedStorageStep(t) ==
    \/ \E u \in Uuids, n \in Usernames, m \in Bodies :
          /\ ServerUnused
          /\ Len(appended) < MaxCacheAppends
          /\ chat_mutex = {}
          /\ AddMessage_Store(t, u, n, m)
    \/ AddMessage_Invalidate(t)
    \/ AddMessage_Check(t)
    \/ \E created \in BOOLEAN : AddMessage_Reset(t, created)
    \/ AddMessage_Return(t)
    \/ ServerUnused /\ GetJson_Check(t)
    \/ GetJson_Take(t)
    \/ \E allocated \in BOOLEAN : GetJson_Locked(t, allocated)
    \/ GetJson_Give(t)
    \/ GetJson_Store(t, TRUE, TRUE)
    \/ \E taken \in BOOLEAN : ServerUnused /\ GetSince_Take(t, 0, taken)
    \/ \E copied \in BOOLEAN : GetSince_Locked(t, copied)
    \/ GetSince_Give(t)
    \/ GetSince_Filter(t)

NextLocks ==
    \/ LockedSseStep(1)
    \/ LockedPostStep(MAX_SSE_CLIENTS + 2)
    \/ \E t \in Tasks : LockedStorageStep(t)
    \/ \E p \in SaveTasks \cup Tasks : chat_mutex = {} /\ Save_Copy(p)
    \/ \E p \in SaveTasks \cup Tasks : Save_Write(p, 0)
    \/ SseTick

SpecLocks == Init /\ [][NextLocks]_vars

\* C31: the task that runs the loop of notify_sse_clients does not hold
\* sse_mutex in a step that sends the event to a client.
C31_BroadcastSendsUnlocked ==
    [][\A p \in Posters :
          (spc[p] = "notify_loop" /\ sent' # sent) => p \notin sse_mutex]_vars

\* C32: a task does not hold the mutex of the ring in a step in which it
\* writes the keys of the NVS namespace.
C32_NoStoreWriteUnderLogLock ==
    [][\A p \in Posters :
          (spc[p] = "post_save_write" /\ nvs' # nvs) => p \notin server_mutex]_vars

\* the next step of a handler that holds a mutex
HolderStep(h) ==
    \/ \E created \in BOOLEAN : Snapshot_Build(h, created)
    \/ \E printed \in BOOLEAN : Snapshot_Give(h, printed)
    \/ \E failed \in (-2)..MAX_MESSAGES : PostSave_Write(h, failed)
    \/ PostSave_Give(h)
    \/ Notify_Loop(h, {})
    \/ Notify_Give(h)

\* the next step of a task that holds chat_mutex of chat_storage.c
TaskHolderStep(t) ==
    \/ \E allocated \in BOOLEAN : GetJson_Locked(t, allocated)
    \/ GetJson_Give(t)
    \/ \E copied \in BOOLEAN : GetSince_Locked(t, copied)
    \/ GetSince_Give(t)

\* C35: no handler holds chat_mutex and sse_mutex at once, the task in
\* notify_sse_clients does not hold chat_mutex, a mutex is held only by a
\* task inside the critical section it took it for (a task that returned, on
\* the allocation-failure and timeout paths too, holds none), and the holder
\* of a mutex can take its next step: it waits for nothing.
C35_NoDeadlock ==
    /\ \A h \in Fds \cup Posters : ~(h \in server_mutex /\ h \in sse_mutex)
    /\ \A p \in Posters :
          spc[p] \in {"post_notify", "notify_loop", "notify_give"}
              => p \notin server_mutex
    /\ \A h \in server_mutex :
          spc[h] \in {"snapshot_build", "snapshot_give", "post_save_write",
                      "post_save_give"}
    /\ \A h \in sse_mutex : spc[h] \in {"notify_loop", "notify_give"}
    /\ \A t \in chat_mutex :
          pc[t] \in {"json_locked", "json_give", "since_locked", "since_give"}
    /\ Cardinality(server_mutex) <= 1
    /\ Cardinality(sse_mutex) <= 1
    /\ Cardinality(chat_mutex) <= 1
    /\ \A h \in server_mutex \cup sse_mutex : ENABLED HolderStep(h)
    /\ \A t \in chat_mutex : ENABLED TaskHolderStep(t)

\* one task holds sse_mutex in notify_sse_clients while the stream handler
\* holds chat_mutex, after a save of that task failed under chat_mutex
C35_Witness ==
    \E p \in Posters :
       /\ sse_mutex = {p}
       /\ server_mutex = {1}
       /\ nvs.count = 0
       /\ posted # <<>>


\* C33: a task changes cached_full_messages_json, cached_full_messages_timestamp
\* or cache_valid only in a step in which it holds chat_mutex.
C33_CacheMutatedUnderLock ==
    [][\A t \in Tasks :
          (/\ pc'[t] # pc[t]
           /\ <<cached_full_messages_json, cached_full_messages_timestamp,
                cache_valid>>' # <<cached_full_messages_json,
                                    cached_full_messages_timestamp, cache_valid>>)
              => t \in chat_mutex]_vars


\* C34: a connection whose handler is in the ping loop was sent the
\* "messages" event with the history.
C34_StreamsAfterSnapshot ==
    \A f \in Fds :
       spc[f] \in {"sse_loop", "sse_loop_sweep"}
           => \E i \in DOMAIN sent[f] : sent[f][i].type = "messages"


\* the texts of the messages the client on socket f was sent, in its
\* "messages" event and in its "message" events
ReceivedTexts(f) ==
    UNION {{sent[f][i].data[j].message : j \in DOMAIN sent[f][i].data} :
              i \in {k \in DOMAIN sent[f] :
                        sent[f][k].type \in {"messages", "message"}}}

\* the POST request that stored message m is still being served
BeingServed(m) ==
    \E p \in Posters :
       /\ spc[p] \in {"post_save", "post_commit", "post_build", "post_notify"}
       /\ resp[p].req.message.valuestring = m.message

C37_EventCarriesStoredTimestamp ==
    \A f \in Fds : \A i \in DOMAIN sent[f] :
       sent[f][i].type = "message" => sent[f][i].data[1] \in Range(posted)


\* C38: the message a POST request stores has the uuid, the username and the
\* message of the request.
C38_AcceptedFieldsStoredWhole ==
    [][\A p \in Posters :
          (spc[p] = "idle" /\ spc'[p] = "post_save")
              => LET copy == CopyMessages(server_storage')
                     m == copy[Len(copy)]
                     req == resp'[p].req
                 IN  /\ m.uuid = req.uuid.valuestring
                     /\ m.username = req.username.valuestring
                     /\ m.message = req.message.valuestring]_vars


\* C39: a POST request is answered with an error status only by a handler
\* that has not stored its message: the ring and the history of the posted
\* messages are as they were when the request arrived.
C39_ErrorLeavesLogUnchanged ==
    [][\A p \in Posters :
          (resp'[p] # resp[p] /\ resp'[p].status >= 400)
              => /\ spc[p] = "idle"
                 /\ server_storage' = server_storage
                 /\ posted' = posted]_vars


(***************************************************************************)
(* SpecPoll: one task appends MaxCacheAppends messages at most, and a      *)
(* polling client calls chat_storage_get_messages_since_json through task  *)
(* "t2", each time with the largest timestamp it has received (0 before    *)
(* it received a message).  sent[1] holds what the client received.  The   *)
(* client goes on polling: its steps are taken when they stay enabled.     *)
(***************************************************************************)
\* the messages the client on socket f has received
ReceivedMessages(f) == UNION {Range(sent[f][i].data) : i \in DOMAIN sent[f]}

\* the largest timestamp among them, 0 when there is none
LargestTimestamp(f) ==
    LET ts == {m.timestamp : m \in ReceivedMessages(f)}
    IN  IF ts = {} THEN 0 ELSE CHOOSE x \in ts : \A y \in ts : y <= x

\* the client's next request, made when it has the answer to the last one
Poll(t, f) ==
    /\ ret[t].op # "get_since"
    /\ GetSince_Copy(t, LargestTimestamp(f), TRUE)

\* the client receives what the call returned: the caller frees json_str
Client_Receive(t, f) ==
    /\ pc[t] = "idle"
    /\ ret[t].op = "get_since"
    /\ sent' = IF ret[t].json.json = <<>> THEN sent
               ELSE [sent EXCEPT ![f] = Append(@, Event("messages", ret[t].json.json))]
    /\ ret' = [ret EXCEPT ![t] = NoRet]
    /\ UNCHANGED <<now, storage_vars, pc, loc, nvs, appended, flushes, mutexes,
                   server_storage, sse_clients, sse_client_count, sock, spc, sloc,
                   resp, posted>>

\* one step of the appending task t
AppendStep(t) ==
    \/ \E u \in Uuids, n \in Usernames, m \in Bodies :
          /\ Len(appended) < MaxCacheAppends
          /\ AddMessage_Store(t, u, n, m)
    \/ AddMessage_Invalidate(t)
    \/ AddMessage_Check(t)
    \/ \E created \in BOOLEAN : AddMessage_Reset(t, created)
    \/ AddMessage_Return(t)

\* one step of the polling client
PollStep ==
    \/ Poll("t2", 1)
    \/ GetSince_Filter("t2")
    \/ Client_Receive("t2", 1)

NextPoll ==
    \/ AppendStep("t1")
    \/ \E p \in SaveTasks \cup {"t1"} : Save_Copy(p)
    \/ \E p \in SaveTasks \cup {"t1"} : Save_Write(p, 0)
    \/ PollStep
    \/ Tick

SpecPoll == Init /\ [][NextPoll]_vars /\ WF_vars(PollStep)

\* C40: every message stored with a timestamp above 0, the since_timestamp
\* of the client's first call, is received by the polling client or leaves the
\* ring.
C40_PollerReceivesEveryMessage ==
    \A k \in 1..MaxCacheAppends :
       (Len(appended) >= k /\ appended[k].timestamp > 0)
           ~> (/\ Len(appended) >= k
               /\ \/ appended[k] \in ReceivedMessages(1)
                  \/ appended[k] \notin Range(CopyMessages(chat_storage)))

=============================================================================
